---- MODULE Spec2Model ----
(***************************************************************************)
(* Model of the photo scanner's background pipeline:                       *)
(*   - core/state.py          the shared mode flag and the two counters    *)
(*   - api/routes/scan.py     scan_directory and control_scan              *)
(*   - services/scan_worker.py background_processor (one loop instance     *)
(*                            per started background task)                 *)
(*   - database.py            find_best_face_match                         *)
(*                                                                         *)
(* Threads.  The request handlers are `async def` functions without an     *)
(* await inside: the event loop runs them one at a time, so there is ONE   *)
(* handler thread (variable api).  background_processor is a plain         *)
(* function given to BackgroundTasks, so every started instance runs in    *)
(* its own pool thread (variable loops) and interleaves with the handler   *)
(* thread and with the other instances between any two statements.         *)
(*                                                                         *)
(* Database.  photos / entities are the committed tables.  A loop          *)
(* instance writes through its own connection: what it has executed but    *)
(* not yet committed (the hash UPDATE of line 88, the entity INSERTs) is   *)
(* kept in the instance's record, is visible to that instance's own        *)
(* SELECTs only, reaches the tables at conn.commit() and is lost when the  *)
(* instance dies on an exception.  A writer waiting for another            *)
(* connection's write lock is an interleaving in which it runs later.      *)
(*                                                                         *)
(* Text (file names, model answers, entity names) is a sequence of         *)
(* one-character strings.                                                  *)
(***************************************************************************)
EXTENDS Integers, Sequences, FiniteSets, TLC

(***************************************************************************)
(* Bounds of the model                                                     *)
(***************************************************************************)
\* loop instances that can be alive at the same time
MaxLoops == 2
\* photo rows ever inserted (AUTOINCREMENT never reuses an id)
MaxPhotoId == 2
\* requests the handlers serve in one behaviour
MaxRequests == 3

(***************************************************************************)
(* Text helpers (Python str methods used by the code)                      *)
(***************************************************************************)
LowerChars == <<"a","b","c","d","e","f","g","h","i","j","k","l","m",
                "n","o","p","q","r","s","t","u","v","w","x","y","z">>
UpperChars == <<"A","B","C","D","E","F","G","H","I","J","K","L","M",
                "N","O","P","Q","R","S","T","U","V","W","X","Y","Z">>
DigitChars == <<"0","1","2","3","4","5","6","7","8","9">>

Range(s) == { s[i] : i \in DOMAIN s }
LowerSet == Range(LowerChars)
UpperSet == Range(UpperChars)
DigitSet == Range(DigitChars)

IsLowerCh(c) == c \in LowerSet
IsUpperCh(c) == c \in UpperSet
IsAlphaCh(c) == IsLowerCh(c) \/ IsUpperCh(c)
IsAlnumCh(c) == IsAlphaCh(c) \/ c \in DigitSet
IsSpaceCh(c) == c \in {" ", "\t", "\n"}

IndexIn(c, s) == CHOOSE i \in DOMAIN s : s[i] = c
ToLower == [ c \in UpperSet |-> LowerChars[IndexIn(c, UpperChars)] ]
ToUpper == [ c \in LowerSet |-> UpperChars[IndexIn(c, LowerChars)] ]

LowerCh(c) == IF IsUpperCh(c) THEN ToLower[c] ELSE c
UpperCh(c) == IF IsLowerCh(c) THEN ToUpper[c] ELSE c

\* str.lower()
StrLower(s) == [ i \in DOMAIN s |-> LowerCh(s[i]) ]

\* s.startswith(p)
StartsWith(s, p) == Len(p) <= Len(s) /\ SubSeq(s, 1, Len(p)) = p

\* position of the first occurrence of sub in s, 0 when there is none
FindSub(s, sub) ==
    LET hits == { i \in 1..(Len(s) - Len(sub) + 1) : SubSeq(s, i, i + Len(sub) - 1) = sub }
    IN  IF hits = {} THEN 0 ELSE CHOOSE i \in hits : \A j \in hits : i <= j

\* sub in s
Contains(s, sub) == FindSub(s, sub) > 0

\* str.strip()
Strip(s) ==
    LET keep == { i \in DOMAIN s : ~IsSpaceCh(s[i]) }
    IN  IF keep = {} THEN <<>>
        ELSE LET lo == CHOOSE i \in keep : \A j \in keep : i <= j
                 hi == CHOOSE i \in keep : \A j \in keep : i >= j
             IN  SubSeq(s, lo, hi)

\* str.rstrip(".")
RStripDot(s) ==
    LET keep == { i \in DOMAIN s : s[i] # "." }
    IN  IF keep = {} THEN <<>>
        ELSE SubSeq(s, 1, CHOOSE i \in keep : \A j \in keep : i >= j)

\* str.replace(c, "") for a single character c
RECURSIVE RemoveCh(_, _)
RemoveCh(s, c) ==
    IF s = <<>> THEN <<>>
    ELSE IF Head(s) = c THEN RemoveCh(Tail(s), c)
         ELSE <<Head(s)>> \o RemoveCh(Tail(s), c)

\* str.split(sep) for a non-empty separator: the list of pieces
RECURSIVE SplitOn(_, _)
SplitOn(s, sep) ==
    LET k == FindSub(s, sep)
    IN  IF k = 0 THEN <<s>>
        ELSE <<SubSeq(s, 1, k - 1)>> \o SplitOn(SubSeq(s, k + Len(sep), Len(s)), sep)

\* len(s.split()): the number of whitespace-separated words
WordCount(s) ==
    Cardinality({ i \in DOMAIN s : ~IsSpaceCh(s[i]) /\ (i = 1 \/ IsSpaceCh(s[i - 1])) })

\* str.title(): a letter that follows a non-letter is upper-cased, any other
\* letter is lower-cased
StrTitle(s) ==
    [ i \in DOMAIN s |->
        IF i = 1 \/ ~IsAlphaCh(s[i - 1]) THEN UpperCh(s[i]) ELSE LowerCh(s[i]) ]

(***************************************************************************)
(* Program constants                                                       *)
(***************************************************************************)
\* core/config.py: the model every loop instance describes photos with
ACTIVE_OLLAMA_MODEL == "llama3.2-vision:latest"
\* scan_worker.py: the deepface import succeeded
DEEPFACE_AVAILABLE == TRUE
\* scan_worker.py line 224: face_confidence > 0.85, in hundredths
MinConfidence == 85
\* database.py line 123: THRESHOLD = 0.40 as the fraction ThresholdNum / ThresholdDen
ThresholdNum == 2
ThresholdDen == 5

ScreenshotTerms ==
    { <<"s","c","r","e","e","n","s","h","o","t">>,
      <<"s","c","r","e","e","n"," ","s","h","o","t">>,
      <<"s","n","i","p">>,
      <<"c","a","p","t","u","r","e">> }

EntitiesMarker == <<"E","n","t","i","t","i","e","s",":">>

negative_starts ==
    { <<"n","o"," ">>,
      <<"n","o","n","e">>,
      <<"n","/","a">>,
      <<"t","h","e","r","e"," ","a","r","e"," ","n","o">>,
      <<"t","h","e","r","e"," ","i","s"," ","n","o">>,
      <<"n","o","t"," ">>,
      <<"a","r","e"," ","n","o">> }

negative_whole ==
    { <<"n","o","n","e">>,
      <<"n","o","n","e",".">>,
      <<"n","/","a">>,
      <<>> }

reject_words ==
    { <<"c","a","t","s">>, <<"c","a","t">>, <<"d","o","g","s">>, <<"d","o","g">>,
      <<"p","e","t","s">>, <<"p","e","t">>,
      <<"a","n","i","m","a","l","s">>, <<"a","n","i","m","a","l">>,
      <<"e","t","c">>, <<"e","t","c",".">>, <<"e","t","c",".",")">>,
      <<"n","o","n","e">>, <<"n","/","a">>,
      <<"v","i","s","i","b","l","e">>, <<"p","r","e","s","e","n","t">>,
      <<"b","i","r","d">>, <<"b","i","r","d","s">>, <<"f","i","s","h">>,
      <<"o","t","h","e","r">>, <<"u","n","k","n","o","w","n">>,
      <<"t","h","e","r","e">>, <<"t","h","e">>, <<"a">>, <<"a","n">> }

reject_fragments ==
    { <<"n","o"," ">>,
      <<"n","o","t"," ">>,
      <<"a","r","e"," ">>,
      <<"t","h","e","r","e"," ">>,
      <<"v","i","s","i","b","l","e">>,
      <<"p","r","e","s","e","n","t">> }

UnknownPrefix == <<"U","n","k","n","o","w","n"," ">>
UnknownPersonPrefix == <<"U","n","k","n","o","w","n"," ","P","e","r","s","o","n"," ">>
\* the pattern of LIKE 'Unknown Person%' (LIKE ignores ASCII case)
UnknownPersonLike == <<"u","n","k","n","o","w","n"," ","p","e","r","s","o","n">>

(***************************************************************************)
(* The file system the scans walk and the answers of the two services.     *)
(* A file is a name and its bytes; the detector's answer is a function of  *)
(* the bytes.                                                              *)
(***************************************************************************)
Files == 1..3

\* portraits outside the scanned directories: the files FaceFile(k, 0) and
\* FaceFile(k, 1) differ in their bytes and show the face FaceEmbeddings[k]
FaceEmbeddings ==
    << <<3, 0>>, <<1, 1>>, <<5, 1>>, <<-1, -1>>, <<0, 0>> >>
FaceFile(k, twin) == 2 + 2 * k + twin

FileName(f) ==
    CASE f = 1 -> <<"a",".","j","p","g">>
      [] f = 2 -> <<"b",".","j","p","g">>
      [] f = 3 -> <<"S","n","i","p","1",".","p","n","g">>
      [] OTHER -> <<"c",".","j","p","g">>

\* files 1 and 2 have identical bytes
FileBytes(f) == IF f \in {1, 2} THEN 1 ELSE IF f = 3 THEN 2 ELSE f

\* hashlib.md5(bytes).hexdigest(): one digest value per content
Md5(bytes) == 100 + bytes

\* what DeepFace.represent returns for the bytes when it returns: embedding
\* (<<>> = missing), face_confidence in hundredths, eye landmarks present
Representations(bytes) ==
    IF bytes = 1
    THEN << [embedding |-> <<3, 0>>, face_confidence |-> 95, left_eye |-> TRUE,  right_eye |-> TRUE],
            [embedding |-> <<0, 2>>, face_confidence |-> 99, left_eye |-> TRUE,  right_eye |-> FALSE],
            [embedding |-> <<0, 1>>, face_confidence |-> 90, left_eye |-> TRUE,  right_eye |-> TRUE] >>
    ELSE IF bytes = 2
    THEN << [embedding |-> <<2, 1>>, face_confidence |-> 97, left_eye |-> TRUE,  right_eye |-> TRUE] >>
    ELSE << [embedding |-> FaceEmbeddings[(bytes - 2) \div 2], face_confidence |-> 95,
             left_eye |-> TRUE, right_eye |-> TRUE] >>

\* what process_image_with_ollama can return: None (isNone) or a text
NoResponse == [isNone |-> TRUE, text |-> <<>>]
TextResponse(t) == [isNone |-> FALSE, text |-> t]
Responses ==
    { NoResponse,
      TextResponse(<<"E","n","t","i","t","i","e","s",":"," ","R","e","x",","," ","c","a","t">>) }

\* answers of the description service that exercise the parser of lines
\* 133-197: lists of names, negative statements, no marker
PetResponses ==
    { TextResponse(<<"A"," ","d","o","g","."," ","E","n","t","i","t","i","e","s",":"," ","F","l","u","f","f","y",","," ","R","e","x">>),
      TextResponse(<<"E","n","t","i","t","i","e","s",":"," ","n","o","n","e",".">>),
      TextResponse(<<"E","n","t","i","t","i","e","s",":"," ","t","h","e","r","e"," ","a","r","e"," ","n","o"," ","d","o","g","s"," ","o","r"," ","c","a","t","s"," ","v","i","s","i","b","l","e">>),
      TextResponse(<<"A"," ","b","e","a","c","h">>),
      TextResponse(<<"e","n","t","i","t","i","e","s",":"," ","r","e","x">>),
      TextResponse(<<"E","n","t","i","t","i","e","s",":"," ","N","o","n","e">>),
      TextResponse(<<"E","n","t","i","t","i","e","s",":"," ","N","/","A">>),
      TextResponse(<<"E","n","t","i","t","i","e","s",":"," "," ">>),
      TextResponse(<<"E","n","t","i","t","i","e","s",":"," ","N","o"," ","p","e","t","s">>),
      TextResponse(<<"E","n","t","i","t","i","e","s",":"," ","N","o","t"," ","s","u","r","e">>),
      TextResponse(<<"E","n","t","i","t","i","e","s",":"," ","a","r","e"," ","n","o"," ","p","e","t","s">>),
      TextResponse(<<"E","n","t","i","t","i","e","s",":"," ","T","h","e","r","e"," ","i","s"," ","n","o"," ","p","e","t">>),
      TextResponse(<<"E","n","t","i","t","i","e","s",":"," ","N","o","n","e"," ","o","f"," ","t","h","e","m">>),
      TextResponse(<<"E","n","t","i","t","i","e","s",":"," ","n","o","n","e"," ","E","n","t","i","t","i","e","s",":"," ","R","e","x">>),
      TextResponse(<<"E","n","t","i","t","i","e","s",":"," ","N","o","n","e","s","u","c","h",","," ","R","e","x">>),
      TextResponse(<<"E","n","t","i","t","i","e","s",":"," ","r","e","x",","," ","m","r"," ","w","h","i","s","k","e","r","s",".">>),
      TextResponse(<<"E","n","t","i","t","i","e","s",":"," ","R","e","x",","," ","c","a","t",","," ","R","e","x">>),
      TextResponse(<<"E","n","t","i","t","i","e","s",":"," ","S","t","."," ","B","e","r","n","a","r","d"," ","(","M","a","x",")">>) }

(***************************************************************************)
(* scan_worker.py lines 62-63: the screenshot filter                       *)
(***************************************************************************)
\* variant: the terms are looked for in the name as it is, without lower()
IsScreenshotName_CaseSensitive(filename) ==
    \E term \in ScreenshotTerms : Contains(filename, term)

\* os.path.basename of a path of the walk is the file name
IsScreenshotName(filename) ==
    LET filename_lower == StrLower(filename)
    IN  \E term \in ScreenshotTerms : Contains(filename_lower, term)

\* the files the filter matches
ScreenshotFiles == { f \in Files : IsScreenshotName(FileName(f)) }

(***************************************************************************)
(* scan_worker.py lines 134-195: the pet names parsed from the answer      *)
(***************************************************************************)
\* variant: only the comparison with the whole text, no startswith
is_negative_WholeOnly(entities_part) ==
    StrLower(entities_part) \in negative_whole

is_negative(entities_part) ==
    \/ \E p \in negative_starts : StartsWith(StrLower(entities_part), p)
    \/ StrLower(entities_part) \in negative_whole

PetClean(pet) == Strip(RemoveCh(RemoveCh(RemoveCh(pet, "."), ")"), "("))

\* variant: without the limit of 3 words of line 189
PetAccepted_NoWordLimit(pet_clean) ==
    /\ Len(pet_clean) >= 2
    /\ Len(pet_clean) < 25
    /\ StrLower(pet_clean) \notin reject_words
    /\ \A frag \in reject_fragments : ~Contains(StrLower(pet_clean), frag)
    /\ \A i \in DOMAIN pet_clean : IsAlnumCh(pet_clean[i]) \/ pet_clean[i] = " "

\* lines 178-190
PetAccepted(pet_clean) ==
    /\ Len(pet_clean) >= 2
    /\ Len(pet_clean) < 25
    /\ StrLower(pet_clean) \notin reject_words
    /\ \A frag \in reject_fragments : ~Contains(StrLower(pet_clean), frag)
    /\ \A i \in DOMAIN pet_clean : IsAlnumCh(pet_clean[i]) \/ pet_clean[i] = " "
    /\ WordCount(pet_clean) <= 3

\* variant: the name as it was written, without title()
PetEntityName_AsWritten(pet_clean) == UnknownPrefix \o Strip(pet_clean)

PetEntityName(pet_clean) == UnknownPrefix \o StrTitle(Strip(pet_clean))

\* [p.strip().rstrip(".").strip() for p in pieces if p.strip()]
RECURSIVE PetTokens(_)
PetTokens(pieces) ==
    IF pieces = <<>> THEN <<>>
    ELSE (IF Strip(Head(pieces)) # <<>>
          THEN <<Strip(RStripDot(Strip(Head(pieces))))>> ELSE <<>>)
         \o PetTokens(Tail(pieces))

\* the names inserted by the loop over pets, in order
RECURSIVE PetNames(_)
PetNames(pets) ==
    IF pets = <<>> THEN <<>>
    ELSE (IF PetAccepted(PetClean(Head(pets)))
          THEN <<PetEntityName(PetClean(Head(pets)))>> ELSE <<>>)
         \o PetNames(Tail(pets))

\* the entity names of the pet rows the worker inserts for an answer
ParsePets(ai_response) ==
    IF ai_response.isNone \/ ai_response.text = <<>>
       \/ ~Contains(ai_response.text, EntitiesMarker)
    THEN <<>>
    ELSE LET entities_part == Strip(SplitOn(ai_response.text, EntitiesMarker)[2])
         IN  IF is_negative(entities_part) THEN <<>>
             ELSE PetNames(PetTokens(SplitOn(entities_part, <<",">>)))

(***************************************************************************)
(* services/image_service.py lines 245-286: process_image_with_ollama      *)
(***************************************************************************)
\* line 278: the text returned when the service answers 404, for the model
\* of core/config.py
ModelNotFoundText ==
    <<"E","r","r","o","r",":"," ","M","o","d","e","l"," ","'","l","l",
      "a","m","a","3",".","2","-","v","i","s","i","o","n",":","l","a",
      "t","e","s","t","'"," ","n","o","t"," ","f","o","u","n","d"," ",
      "i","n"," ","l","o","c","a","l"," ","O","l","l","a","m","a",".",
      " ","P","l","e","a","s","e"," ","o","p","e","n"," ","y","o","u",
      "r"," ","t","e","r","m","i","n","a","l"," ","a","n","d"," ","r",
      "u","n"," ","'","o","l","l","a","m","a"," ","p","u","l","l"," ",
      "l","l","a","m","a","3",".","2","-","v","i","s","i","o","n",":",
      "l","a","t","e","s","t","'"," ","t","o"," ","d","o","w","n","l",
      "o","a","d"," ","i","t",".">>

\* what the attempt to get a description can come to: reading the file
\* raises (line 262), requests.post raises (line 272), or a response with
\* its status code and the "response" member of its body
ServiceResults ==
    { [kind |-> "OSError", status_code |-> 0, text |-> <<>>],
      [kind |-> "ConnectionError", status_code |-> 0, text |-> <<>>],
      [kind |-> "Timeout", status_code |-> 0, text |-> <<>>],
      [kind |-> "response", status_code |-> 500, text |-> <<"o","o","p","s">>],
      [kind |-> "response", status_code |-> 404, text |-> <<>>],
      [kind |-> "response", status_code |-> 200,
       text |-> <<"E","n","t","i","t","i","e","s",":"," ","R","e","x",","," ","c","a","t">>],
      [kind |-> "response", status_code |-> 200, text |-> <<"A"," ","b","e","a","c","h">>] }

\* variant: without line 280, response.raise_for_status()
process_image_with_ollama_NoRaise(result) ==
    IF result.kind # "response" THEN NoResponse
    ELSE IF result.status_code = 404 THEN TextResponse(ModelNotFoundText)
    ELSE TextResponse(result.text)

process_image_with_ollama(result) ==
    IF result.kind # "response" THEN NoResponse
    ELSE IF result.status_code = 404 THEN TextResponse(ModelNotFoundText)
    ELSE IF result.status_code >= 400 THEN NoResponse
    ELSE TextResponse(result.text)

\* what the worker can get from the call of line 95
AdapterResponses == { process_image_with_ollama(result) : result \in ServiceResults }

\* answers whose lists hold tokens of every kind the filter of lines 178-190
\* rejects, next to tokens it accepts
TokenResponses ==
    { TextResponse(<<"E","n","t","i","t","i","e","s",":"," ","R","e","x",","," ","x",","," ","B","o">>),
      TextResponse(<<"E","n","t","i","t","i","e","s",":"," ","M","a","x","i","m","i","l","i","a","n"," ","A","l","e","x","a","n","d","e","r"," ","R","e","x","2",","," ","M","a","x","i","m","i","l","i","a","n"," ","A","l","e","x","a","n","d","e","r"," ","R","e","x">>),
      TextResponse(<<"E","n","t","i","t","i","e","s",":"," ","C","a","t",","," ","T","H","E",","," ","R","e","x"," ","n","o","t"," ","h","e","r","e",","," ","V","i","s","i","b","l","e"," ","R","e","x",","," ","J","u","n","o"," ","R","e","x">>),
      TextResponse(<<"E","n","t","i","t","i","e","s",":"," ","R","e","x","!",","," ","R","2"," ","D","2",","," ","T","o","m","-","T","o","m">>),
      TextResponse(<<"E","n","t","i","t","i","e","s",":"," ","a"," ","b"," ","c"," ","d",","," ","M","r"," ","T"," ","B","o","n","e">>),
      TextResponse(<<"E","n","t","i","t","i","e","s",":"," ","S","t","."," ","B","e","r","n","a","r","d"," ","(","M","a","x",")",","," ","R","e","x",".">>),
      TextResponse(<<"E","n","t","i","t","i","e","s",":"," ","M",".","a",".","x",","," ","(","R","e","x",")",","," ","e","t","c",".",")">>) }

\* the pet names of every answer of the description service
PetsOfResponse ==
    [ r \in Responses \cup PetResponses \cup AdapterResponses \cup TokenResponses
        |-> ParsePets(r) ]

(***************************************************************************)
(* database.py lines 102-149: find_best_face_match                         *)
(***************************************************************************)
RECURSIVE DotFrom(_, _, _)
DotFrom(a, b, i) ==
    IF i > Len(a) \/ i > Len(b) THEN 0 ELSE a[i] * b[i] + DotFrom(a, b, i + 1)

\* np.dot(a, b)
Dot(a, b) == DotFrom(a, b, 1)
\* np.linalg.norm(a) squared
NormSq(a) == Dot(a, a)

\* variant: distance <= best_distance, a tie goes to the row met last
DistanceLess_OrEqual(d1, n1, d2, n2) ==
    CASE d1 >= 0 /\ d2 < 0  -> TRUE
      [] d1 < 0  /\ d2 >= 0 -> FALSE
      [] d1 >= 0 /\ d2 >= 0 -> d1 * d1 * n2 >= d2 * d2 * n1
      [] OTHER              -> d1 * d1 * n2 <= d2 * d2 * n1

\* 1 - d1/(|q| sqrt(n1)) < 1 - d2/(|q| sqrt(n2)), for n1, n2 > 0
DistanceLess(d1, n1, d2, n2) ==
    CASE d1 >= 0 /\ d2 < 0  -> TRUE
      [] d1 < 0  /\ d2 >= 0 -> FALSE
      [] d1 >= 0 /\ d2 >= 0 -> d1 * d1 * n2 > d2 * d2 * n1
      [] OTHER              -> d1 * d1 * n2 < d2 * d2 * n1

\* variant: a distance of 0 is no match (0 < distance < THRESHOLD)
BelowThreshold_Exclusive(d, nq, nk) ==
    /\ d > 0
    /\ d * d < nq * nk
    /\ ThresholdDen * ThresholdDen * d * d
         > (ThresholdDen - ThresholdNum) * (ThresholdDen - ThresholdNum) * nq * nk

\* 1 - d/(sqrt(nq) sqrt(nk)) < THRESHOLD
BelowThreshold(d, nq, nk) ==
    /\ d > 0
    /\ ThresholdDen * ThresholdDen * d * d
         > (ThresholdDen - ThresholdNum) * (ThresholdDen - ThresholdNum) * nq * nk

\* the loop over known_faces: best is [found, name, d, n] of the best row so far
RECURSIVE BestFace(_, _, _)
BestFace(embedding, known_faces, best) ==
    IF known_faces = <<>> THEN best
    ELSE LET k == Head(known_faces)
             k_norm == NormSq(k.embedding)
             d == Dot(embedding, k.embedding)
             better == ~best.found \/ DistanceLess(d, k_norm, best.d, best.n)
         IN  IF k.embedding = <<>> \/ k_norm = 0 \/ ~better
             THEN BestFace(embedding, Tail(known_faces), best)
             ELSE BestFace(embedding, Tail(known_faces),
                           [found |-> TRUE, name |-> k.entity_name, d |-> d, n |-> k_norm])

NoMatch == [found |-> FALSE, name |-> <<>>, d |-> 0, n |-> 0]

\* SELECT entity_name, embedding FROM entities WHERE entity_type = 'person'
PersonRows(rows) ==
    SelectSeq(rows, LAMBDA row : row.entity_type = "person")

\* the returned name, <<>> for None
find_best_face_match(embedding, rows) ==
    LET best == BestFace(embedding, PersonRows(rows), NoMatch)
    IN  IF NormSq(embedding) = 0 THEN <<>>
        ELSE IF best.found /\ BelowThreshold(best.d, NormSq(embedding), best.n)
             THEN best.name
             ELSE <<>>

(***************************************************************************)
(* scan_worker.py lines 216-249: the loop over the representations         *)
(***************************************************************************)
\* str(n) for n >= 0
RECURSIVE IntToStr(_)
IntToStr(n) ==
    IF n < 10 THEN <<DigitChars[n + 1]>>
    ELSE IntToStr(n \div 10) \o <<DigitChars[(n % 10) + 1]>>

\* SELECT COUNT(*) FROM entities WHERE entity_type = 'person'
\*   AND entity_name LIKE 'Unknown Person%'
UnknownCount(rows) ==
    Cardinality({ i \in DOMAIN rows :
                    /\ rows[i].entity_type = "person"
                    /\ StartsWith(StrLower(rows[i].entity_name), UnknownPersonLike) })

\* line 224: the acceptance filter
RepAccepted(rep) ==
    /\ rep.embedding # <<>>
    /\ rep.face_confidence > MinConfidence
    /\ rep.left_eye /\ rep.right_eye

PersonEntity(photo_id, name, embedding) ==
    [photo_id |-> photo_id, entity_type |-> "person", entity_name |-> name,
     embedding |-> embedding]

PetEntity(photo_id, name) ==
    [photo_id |-> photo_id, entity_type |-> "pet", entity_name |-> name,
     embedding |-> <<>>]

\* acc = [txn, allocs]: the connection's uncommitted entity rows and the
\* numbers N of the names "Unknown Person N" allocated so far by this loop
RECURSIVE ResolveFaces(_, _, _, _)
ResolveFaces(representations, photo_id, committed, acc) ==
    IF representations = <<>> THEN acc
    ELSE LET rep == Head(representations)
             visible == committed \o acc.txn
             matched_name == find_best_face_match(rep.embedding, visible)
             unknown_count == UnknownCount(visible)
             name == IF matched_name # <<>> THEN matched_name
                     ELSE UnknownPersonPrefix \o IntToStr(unknown_count + 1)
         IN  IF ~RepAccepted(rep)
             THEN ResolveFaces(Tail(representations), photo_id, committed, acc)
             ELSE ResolveFaces(Tail(representations), photo_id, committed,
                    [txn |-> Append(acc.txn, PersonEntity(photo_id, name, rep.embedding)),
                     allocs |-> IF matched_name # <<>> THEN acc.allocs
                                ELSE Append(acc.allocs, unknown_count + 1)])

(***************************************************************************)
(* State                                                                   *)
(***************************************************************************)
VARIABLES
    SCAN_STATE,             \* core/state.py: "idle", "running" or "paused"
    current_scan_total,     \* core/state.py
    current_scan_processed, \* core/state.py
    photos,                 \* committed table photos: id -> row
    next_photo_id,          \* the AUTOINCREMENT sequence of photos
    entities,               \* committed table entities, in insertion order
    loops,                  \* the background_processor instances
    api,                    \* the request handler the event loop is running
    requests,               \* the number of requests served so far
    unknown_allocs,         \* history: the N of each "Unknown Person N" allocated in this run
    test_db,                \* test_photometadata.db: the tables of the single-scan path
    system                  \* api/routes/system.py: the backups folder and the last response

vars == <<SCAN_STATE, current_scan_total, current_scan_processed, photos,
          next_photo_id, entities, loops, api, requests, unknown_allocs, test_db,
          system>>

\* the test database after init_db: both tables empty
EmptyTestDb == [photos |-> <<>>, next_photo_id |-> 1, entities |-> <<>>]

\* no backup file, no request to /api/database/* served yet
NoSystem == [backups |-> <<>>, served |-> 0, status_code |-> 0]

\* the threads of the pool that run background_processor
LoopSlots == 1..MaxLoops
\* the instances the behaviour has room for
LoopIds == DOMAIN loops

\* SQL NULL of a text column / a text value
NullText == [isNone |-> TRUE, text |-> <<>>]
\* os.path.getsize
FileSize(bytes) == 1000 + bytes

\* INSERT INTO photos (filepath, filename): status takes its DEFAULT 'pending'
NewPhoto(f) ==
    [file |-> f, status |-> "pending", description |-> NullText,
     file_size |-> 0, file_hash |-> 0, ai_model |-> ""]

\* a loop instance that is not running (never started, returned or died)
\* log: the failure the current iteration passed to state.add_log last
NoLoop ==
    [pc |-> "none", photo_id |-> 0, file |-> 0, txn_hash |-> 0, txn |-> <<>>,
     log |-> "none"]

Alive(w) == loops[w].pc # "none"
AliveLoops == { w \in LoopIds : Alive(w) }
\* the instance is inside its while loop (lines 40-257)
Active(w) == loops[w].pc \notin {"none", "finish"}
ActiveLoops == { w \in LoopIds : Active(w) }
\* the instance holds a fetched photo and has not finished its iteration
InFlight(w) == loops[w].pc \in {"classify", "hash", "describe", "faces", "commit"}

PendingIds == { id \in DOMAIN photos : photos[id].status = "pending" }
MinOf(S) == CHOOSE x \in S : \A y \in S : x <= y

Init ==
    /\ SCAN_STATE = "idle"
    /\ current_scan_total = 0
    /\ current_scan_processed = 0
    /\ photos = <<>>
    /\ next_photo_id = 1
    /\ entities = <<>>
    /\ loops = [w \in LoopSlots |-> NoLoop]
    /\ api = [pc |-> "ready", added |-> 0]
    /\ requests = 0
    /\ unknown_allocs = <<>>
    /\ test_db = EmptyTestDb
    /\ system = NoSystem

(***************************************************************************)
(* api/routes/scan.py: scan_directory                                      *)
(***************************************************************************)
\* the rows the walk inserts, in walk order, for the files without a row
RECURSIVE InsertFiles(_, _, _)
InsertFiles(table, id, fs) ==
    IF fs = {} THEN table
    ELSE LET f == MinOf(fs)
         IN  InsertFiles(table @@ (id :> NewPhoto(f)), id + 1, fs \ {f})

\* DELETE FROM entities WHERE photo_id IN (ids)
DeleteEntitiesOf(rows, ids) ==
    SelectSeq(rows, LAMBDA row : row.photo_id \notin ids)

\* the id the AUTOINCREMENT sequence reaches when scan_directory has inserted
LastIdAfter(dir, force_rescan) ==
    next_photo_id - 1
      + Cardinality({ f \in dir :
            force_rescan \/ \A id \in DOMAIN photos : photos[id].file # f })

\* lines 40-89: purge (force_rescan), walk the directory dir and insert
ScanInsert(dir, force_rescan) ==
    LET purged == IF force_rescan
                  THEN { id \in DOMAIN photos : photos[id].file \in dir } ELSE {}
        kept == [ id \in DOMAIN photos \ purged |-> photos[id] ]
        new_files == { f \in dir : \A id \in DOMAIN kept : kept[id].file # f }
        added_count == Cardinality(new_files)
    IN  /\ api.pc = "ready"
        /\ requests' = requests + 1
        /\ entities' = DeleteEntitiesOf(entities, purged)
        /\ photos' = InsertFiles(kept, next_photo_id, new_files)
        /\ next_photo_id' = next_photo_id + added_count
        /\ api' = [pc |-> "scan_trigger", added |-> added_count]
        /\ UNCHANGED <<system, test_db, SCAN_STATE, current_scan_total, current_scan_processed,
                       loops, unknown_allocs>>

\* lines 92-102: start a loop instance, or append to the running scan
ScanTrigger ==
    /\ api.pc = "scan_trigger"
    /\ IF SCAN_STATE = "idle"
       THEN /\ \E w \in LoopIds : ~Alive(w)
            /\ current_scan_total' = api.added
            /\ current_scan_processed' = 0
            /\ SCAN_STATE' = "running"
            /\ LET w == MinOf({ v \in LoopIds : ~Alive(v) })
               IN  loops' = [loops EXCEPT ![w] = [NoLoop EXCEPT !.pc = "top"]]
            /\ unknown_allocs' = <<>>
       ELSE /\ current_scan_total' = current_scan_total + api.added
            /\ UNCHANGED <<current_scan_processed, SCAN_STATE, loops, unknown_allocs>>
    /\ api' = [pc |-> "ready", added |-> 0]
    /\ UNCHANGED <<system, test_db, photos, next_photo_id, entities, requests>>

(***************************************************************************)
(* api/routes/scan.py: control_scan                                        *)
(***************************************************************************)
\* line 315-316: action "pause", the test of the mode
PauseCheck ==
    /\ api.pc = "ready"
    /\ requests' = requests + 1
    /\ SCAN_STATE = "running"
    /\ api' = [api EXCEPT !.pc = "pause_set"]
    /\ UNCHANGED <<system, test_db, SCAN_STATE, current_scan_total, current_scan_processed, photos,
                   next_photo_id, entities, loops, unknown_allocs>>

\* line 317
PauseSet ==
    /\ api.pc = "pause_set"
    /\ SCAN_STATE' = "paused"
    /\ api' = [api EXCEPT !.pc = "ready"]
    /\ UNCHANGED <<system, test_db, current_scan_total, current_scan_processed, photos,
                   next_photo_id, entities, loops, unknown_allocs, requests>>

\* lines 319-320: action "resume", the test of the mode
ResumeCheck ==
    /\ api.pc = "ready"
    /\ requests' = requests + 1
    /\ SCAN_STATE = "paused"
    /\ api' = [api EXCEPT !.pc = "resume_set"]
    /\ UNCHANGED <<system, test_db, SCAN_STATE, current_scan_total, current_scan_processed, photos,
                   next_photo_id, entities, loops, unknown_allocs>>

\* line 321
ResumeSet ==
    /\ api.pc = "resume_set"
    /\ SCAN_STATE' = "running"
    /\ api' = [api EXCEPT !.pc = "ready"]
    /\ UNCHANGED <<system, test_db, current_scan_total, current_scan_processed, photos,
                   next_photo_id, entities, loops, unknown_allocs, requests>>

\* lines 315-316 and 319-320 when the test of the mode fails, and lines
\* 339-340 (any other action: HTTPException 400): the request changes nothing
ControlIgnored(action) ==
    /\ api.pc = "ready"
    /\ requests' = requests + 1
    /\ \/ action = "pause" /\ SCAN_STATE # "running"
       \/ action = "resume" /\ SCAN_STATE # "paused"
       \/ action \notin {"pause", "resume", "cancel"}
    /\ UNCHANGED <<system, test_db, SCAN_STATE, current_scan_total, current_scan_processed, photos,
                   next_photo_id, entities, loops, api, unknown_allocs>>

\* lines 323-326: action "cancel", the shared state
CancelState ==
    /\ api.pc = "ready"
    /\ requests' = requests + 1
    /\ SCAN_STATE' = "idle"
    /\ current_scan_total' = 0
    /\ current_scan_processed' = 0
    /\ api' = [api EXCEPT !.pc = "cancel_delete"]
    /\ UNCHANGED <<system, test_db, photos, next_photo_id, entities, loops, unknown_allocs>>

\* variant: the DELETE has no WHERE clause
CancelDelete_AllRows ==
    /\ api.pc = "cancel_delete"
    /\ photos' = << >>
    /\ api' = [api EXCEPT !.pc = "ready"]
    /\ UNCHANGED <<system, test_db, SCAN_STATE, current_scan_total, current_scan_processed,
                   next_photo_id, entities, loops, unknown_allocs, requests>>

\* lines 332-338: DELETE FROM photos WHERE status = 'pending'; commit
CancelDelete ==
    /\ api.pc = "cancel_delete"
    /\ photos' = [ id \in DOMAIN photos \ PendingIds |-> photos[id] ]
    /\ api' = [api EXCEPT !.pc = "ready"]
    /\ UNCHANGED <<system, test_db, SCAN_STATE, current_scan_total, current_scan_processed,
                   next_photo_id, entities, loops, unknown_allocs, requests>>

(***************************************************************************)
(* api/routes/entities.py: name_main_entity and delete_main_entity         *)
(***************************************************************************)
\* lines 60-91: UPDATE entities SET entity_name = new_name.strip() WHERE
\* entity_name = old_name, in every row of either type; commit
name_main_entity(old_name, new_name) ==
    /\ api.pc = "ready"
    /\ requests' = requests + 1
    /\ entities' = [ i \in DOMAIN entities |->
                       IF entities[i].entity_name = old_name
                       THEN [entities[i] EXCEPT !.entity_name = Strip(new_name)]
                       ELSE entities[i] ]
    /\ UNCHANGED <<system, test_db, SCAN_STATE, current_scan_total, current_scan_processed, photos,
                   next_photo_id, loops, api, unknown_allocs>>

\* lines 94-106: DELETE FROM entities WHERE entity_name = ?; commit
delete_main_entity(entity_name) ==
    /\ api.pc = "ready"
    /\ requests' = requests + 1
    /\ entities' = SelectSeq(entities, LAMBDA row : row.entity_name # entity_name)
    /\ UNCHANGED <<system, test_db, SCAN_STATE, current_scan_total, current_scan_processed, photos,
                   next_photo_id, loops, api, unknown_allocs>>

(***************************************************************************)
(* api/routes/system.py: clean_database, trigger_backup, trigger_restore   *)
(***************************************************************************)
\* backup_db.py line 23: shutil.copy2(DB_FILE, backup_path), the committed
\* content of photometadata.db
Snapshot == [photos |-> photos, next_photo_id |-> next_photo_id, entities |-> entities]

\* the response of a handler of system.py
Responded(status_code, backups) ==
    system' = [backups |-> backups, served |-> system.served + 1,
               status_code |-> status_code]

\* lines 29, 81, 94: if state.SCAN_STATE == "running": raise HTTPException(400)
Rejects == SCAN_STATE = "running"

\* lines 26-54; target "main" or "test".  Line 42 deletes the rows of
\* sqlite_sequence: the ids start from 1 again
clean_database(target) ==
    /\ api.pc = "ready"
    /\ requests' = requests + 1
    /\ IF Rejects
       THEN /\ Responded(400, system.backups)
            /\ UNCHANGED <<photos, next_photo_id, entities, test_db>>
       ELSE /\ Responded(200, system.backups)
            /\ IF target = "main"
               THEN /\ photos' = <<>>
                    /\ next_photo_id' = 1
                    /\ entities' = <<>>
                    /\ UNCHANGED test_db
               ELSE /\ test_db' = EmptyTestDb
                    /\ UNCHANGED <<photos, next_photo_id, entities>>
    /\ UNCHANGED <<SCAN_STATE, current_scan_total, current_scan_processed, loops, api,
                   unknown_allocs>>

\* lines 78-90 and backup_db.py lines 9-28
trigger_backup ==
    /\ api.pc = "ready"
    /\ requests' = requests + 1
    /\ IF Rejects
       THEN Responded(400, system.backups)
       ELSE Responded(200, Append(system.backups, Snapshot))
    /\ UNCHANGED <<test_db, SCAN_STATE, current_scan_total, current_scan_processed, photos,
                   next_photo_id, entities, loops, api, unknown_allocs>>

\* lines 93-110 and restore_db.py lines 9-36; filename names a file of the
\* backups folder.  Line 25 keeps a safety copy of the current database
trigger_restore(filename) ==
    /\ api.pc = "ready"
    /\ requests' = requests + 1
    /\ filename \in DOMAIN system.backups
    /\ IF Rejects
       THEN /\ Responded(400, system.backups)
            /\ UNCHANGED <<photos, next_photo_id, entities>>
       ELSE /\ Responded(200, Append(system.backups, Snapshot))
            /\ photos' = system.backups[filename].photos
            /\ next_photo_id' = system.backups[filename].next_photo_id
            /\ entities' = system.backups[filename].entities
    /\ UNCHANGED <<test_db, SCAN_STATE, current_scan_total, current_scan_processed, loops,
                   api, unknown_allocs>>

(***************************************************************************)
(* services/scan_worker.py: background_processor, instance w               *)
(***************************************************************************)
\* UPDATE photos SET ... WHERE id = ?: no row is changed when the id is gone
UpdatePhoto(table, id, row) ==
    IF id \in DOMAIN table THEN [table EXCEPT ![id] = row] ELSE table

\* the next iteration starts with an empty transaction
NextIteration == [NoLoop EXCEPT !.pc = "top"]

\* an exception no handler catches leaves background_processor: the instance
\* is gone, its connection is dropped with what it had not committed
LoopDies(w) == loops' = [loops EXCEPT ![w] = NoLoop]

\* variant: the loop without lines 41-42
LoopTop_NoIdleCheck(w) ==
    /\ loops[w].pc = "top"
    /\ loops' = [loops EXCEPT ![w].pc = "chk_paused"]
    /\ UNCHANGED <<system, test_db, SCAN_STATE, current_scan_total, current_scan_processed, photos,
                   next_photo_id, entities, api, unknown_allocs, requests>>

\* lines 41-42: if state.SCAN_STATE == "idle": break
LoopTop(w) ==
    /\ loops[w].pc = "top"
    /\ loops' = [loops EXCEPT ![w].pc =
                    IF SCAN_STATE = "idle" THEN "finish" ELSE "chk_paused"]
    /\ UNCHANGED <<system, test_db, SCAN_STATE, current_scan_total, current_scan_processed, photos,
                   next_photo_id, entities, api, unknown_allocs, requests>>

\* variant: the loop without lines 44-46
LoopCheckPaused_NoPause(w) ==
    /\ loops[w].pc = "chk_paused"
    /\ loops' = [loops EXCEPT ![w].pc = "fetch"]
    /\ UNCHANGED <<system, test_db, SCAN_STATE, current_scan_total, current_scan_processed, photos,
                   next_photo_id, entities, api, unknown_allocs, requests>>

\* lines 44-46: if state.SCAN_STATE == "paused": sleep(1); continue
LoopCheckPaused(w) ==
    /\ loops[w].pc = "chk_paused"
    /\ loops' = [loops EXCEPT ![w].pc =
                    IF SCAN_STATE = "paused" THEN "top" ELSE "fetch"]
    /\ UNCHANGED <<system, test_db, SCAN_STATE, current_scan_total, current_scan_processed, photos,
                   next_photo_id, entities, api, unknown_allocs, requests>>

\* lines 48-59: SELECT ... WHERE status = 'pending' LIMIT 1 (rowid order),
\* and the count of the fetched photo
LoopFetch(w) ==
    /\ loops[w].pc = "fetch"
    /\ IF PendingIds = {}
       THEN /\ loops' = [loops EXCEPT ![w].pc = "set_idle"]
            /\ UNCHANGED current_scan_processed
       ELSE LET id == MinOf(PendingIds)
            IN  /\ loops' = [loops EXCEPT ![w] =
                        [pc |-> "classify", photo_id |-> id, file |-> photos[id].file,
                         txn_hash |-> 0, txn |-> <<>>, log |-> "none"]]
                /\ current_scan_processed' = current_scan_processed + 1
    /\ UNCHANGED <<system, test_db, SCAN_STATE, current_scan_total, photos, next_photo_id,
                   entities, api, unknown_allocs, requests>>

\* lines 52-55: the queue is empty
LoopSetIdle(w) ==
    /\ loops[w].pc = "set_idle"
    /\ SCAN_STATE' = "idle"
    /\ current_scan_total' = 0
    /\ current_scan_processed' = 0
    /\ loops' = [loops EXCEPT ![w].pc = "finish"]
    /\ UNCHANGED <<system, test_db, photos, next_photo_id, entities, api, unknown_allocs, requests>>

\* lines 259-262: after the loop
LoopFinish(w) ==
    /\ loops[w].pc = "finish"
    /\ current_scan_total' = 0
    /\ current_scan_processed' = 0
    /\ loops' = [loops EXCEPT ![w] = NoLoop]
    /\ UNCHANGED <<system, test_db, SCAN_STATE, photos, next_photo_id, entities, api, unknown_allocs, requests>>

\* lines 62-67: the screenshot filter; db_error: the UPDATE or the commit raises
LoopClassify(w, db_error) ==
    LET me == loops[w]
    IN  /\ me.pc = "classify"
        /\ IF me.file \in ScreenshotFiles
           THEN IF db_error
                THEN /\ LoopDies(w)
                     /\ UNCHANGED photos
                ELSE /\ photos' = UpdatePhoto(photos, me.photo_id,
                            [photos[me.photo_id] EXCEPT !.status = "screenshot"])
                     /\ loops' = [loops EXCEPT ![w] = NextIteration]
           ELSE /\ ~db_error
                /\ loops' = [loops EXCEPT ![w].pc = "hash"]
                /\ UNCHANGED photos
        /\ UNCHANGED <<system, test_db, SCAN_STATE, current_scan_total, current_scan_processed,
                       next_photo_id, entities, api, unknown_allocs, requests>>

\* variant: the SELECT without "AND ai_model = ?"
DuplicateOf_AnyModel(table, file_hash) ==
    { id \in DOMAIN table :
        /\ table[id].file_hash = file_hash
        /\ table[id].status = "processed" }

\* line 75-78: SELECT id FROM photos WHERE file_hash = ? AND status = 'processed'
\*             AND ai_model = ?
DuplicateOf(table, file_hash) ==
    { id \in DOMAIN table :
        /\ table[id].file_hash = file_hash
        /\ table[id].status = "processed"
        /\ table[id].ai_model = ACTIVE_OLLAMA_MODEL }

\* variant: the except of line 91 sets the photo to 'error' and ends the
\* iteration
LoopHash_MarksError(w, io_error) ==
    LET me == loops[w]
        file_size == FileSize(FileBytes(me.file))
        file_hash == Md5(FileBytes(me.file))
    IN  /\ me.pc = "hash"
        /\ IF io_error
           THEN /\ photos' = UpdatePhoto(photos, me.photo_id,
                       [photos[me.photo_id] EXCEPT !.status = "error"])
                /\ loops' = [loops EXCEPT ![w] = NextIteration]
           ELSE IF DuplicateOf(photos, file_hash) # {}
                THEN /\ photos' = UpdatePhoto(photos, me.photo_id,
                            [photos[me.photo_id] EXCEPT !.status = "duplicate",
                                                        !.file_size = file_size,
                                                        !.file_hash = file_hash])
                     /\ loops' = [loops EXCEPT ![w] = NextIteration]
                ELSE /\ loops' = [loops EXCEPT ![w].pc = "describe",
                                               ![w].txn_hash = file_hash]
                     /\ UNCHANGED photos
        /\ UNCHANGED <<system, test_db, SCAN_STATE, current_scan_total, current_scan_processed,
                       next_photo_id, entities, api, unknown_allocs, requests>>

\* lines 70-92: the duplicate filter; io_error: getsize / open / read raises,
\* which the except of line 91 catches and line 92 logs
LoopHash(w, io_error) ==
    LET me == loops[w]
        file_size == FileSize(FileBytes(me.file))
        file_hash == Md5(FileBytes(me.file))
    IN  /\ me.pc = "hash"
        /\ IF io_error
           THEN /\ loops' = [loops EXCEPT ![w].pc = "describe",
                                          ![w].log = "Error checking duplicate"]
                /\ UNCHANGED photos
           ELSE IF DuplicateOf(photos, file_hash) # {}
                THEN /\ photos' = UpdatePhoto(photos, me.photo_id,
                            [photos[me.photo_id] EXCEPT !.status = "duplicate",
                                                        !.file_size = file_size,
                                                        !.file_hash = file_hash])
                     /\ loops' = [loops EXCEPT ![w] = NextIteration]
                ELSE /\ loops' = [loops EXCEPT ![w].pc = "describe",
                                               ![w].txn_hash = file_hash]
                     /\ UNCHANGED photos
        /\ UNCHANGED <<system, test_db, SCAN_STATE, current_scan_total, current_scan_processed,
                       next_photo_id, entities, api, unknown_allocs, requests>>

\* the pet rows of lines 192-195 for an answer
RECURSIVE PetRows(_, _)
PetRows(photo_id, names) ==
    IF names = <<>> THEN <<>>
    ELSE <<PetEntity(photo_id, Head(names))>> \o PetRows(photo_id, Tail(names))

\* line 96: description = ai_response if ai_response else ""
DescriptionOf(ai_response) ==
    IF ai_response.isNone THEN [isNone |-> FALSE, text |-> <<>>] ELSE ai_response

\* lines 95-197: the description (ai_response is what the service call gives),
\* the UPDATE to 'processed' with its commit, which also commits the hash of
\* line 88, then the pet rows, which stay uncommitted;
\* db_error: the UPDATE or the commit of lines 112-130 raises
LoopDescribe(w, ai_response, db_error) ==
    LET me == loops[w]
        hashed == IF me.txn_hash = 0 \/ me.photo_id \notin DOMAIN photos
                  THEN photos
                  ELSE [photos EXCEPT ![me.photo_id].file_hash = me.txn_hash,
                                      ![me.photo_id].file_size = FileSize(FileBytes(me.file))]
    IN  /\ me.pc = "describe"
        /\ IF db_error
           THEN /\ LoopDies(w)
                /\ UNCHANGED photos
           ELSE /\ photos' = UpdatePhoto(hashed, me.photo_id,
                        [hashed[me.photo_id] EXCEPT !.description = DescriptionOf(ai_response),
                                                    !.status = "processed",
                                                    !.ai_model = ACTIVE_OLLAMA_MODEL])
                /\ loops' = [loops EXCEPT ![w].pc = "faces",
                                          ![w].txn_hash = 0,
                                          ![w].txn = PetRows(me.photo_id, PetsOfResponse[ai_response])]
        /\ UNCHANGED <<system, test_db, SCAN_STATE, current_scan_total, current_scan_processed,
                       next_photo_id, entities, api, unknown_allocs, requests>>

\* variant: the handler of an unexpected exception rolls the transaction back
LoopFaces_Rollback(w, outcome) ==
    LET me == loops[w]
        res == ResolveFaces(Representations(FileBytes(me.file)), me.photo_id,
                            entities, [txn |-> me.txn, allocs |-> <<>>])
    IN  /\ me.pc = "faces"
        /\ IF DEEPFACE_AVAILABLE /\ outcome = "ok"
           THEN /\ loops' = [loops EXCEPT ![w].pc = "commit", ![w].txn = res.txn]
                /\ unknown_allocs' = unknown_allocs \o res.allocs
           ELSE /\ loops' = [loops EXCEPT ![w].pc = "commit",
                                          ![w].txn = IF outcome = "ValueError"
                                                     THEN me.txn ELSE << >>,
                                          ![w].log = IF outcome = "ValueError"
                                                     THEN "No face found"
                                                     ELSE "DeepFace processing error"]
                /\ UNCHANGED unknown_allocs
        /\ UNCHANGED <<system, test_db, SCAN_STATE, current_scan_total, current_scan_processed, photos,
                       next_photo_id, entities, api, requests>>

\* lines 200-255: the face step.  outcome "ok": DeepFace.represent returns;
\* "ValueError": the image does not decode or holds no face (line 250);
\* "Exception": any other exception of the step (line 253)
LoopFaces(w, outcome) ==
    LET me == loops[w]
        \* entities is what find_best_face_match and the COUNT read: the
        \* committed rows, followed by this connection's own uncommitted ones
        res == ResolveFaces(Representations(FileBytes(me.file)), me.photo_id,
                            entities, [txn |-> me.txn, allocs |-> <<>>])
    IN  /\ me.pc = "faces"
        /\ IF DEEPFACE_AVAILABLE /\ outcome = "ok"
           THEN /\ loops' = [loops EXCEPT ![w].pc = "commit", ![w].txn = res.txn]
                /\ unknown_allocs' = unknown_allocs \o res.allocs
           ELSE /\ loops' = [loops EXCEPT ![w].pc = "commit",
                                          ![w].log = IF outcome = "ValueError"
                                                     THEN "No face found"
                                                     ELSE "DeepFace processing error"]
                /\ UNCHANGED unknown_allocs
        /\ UNCHANGED <<system, test_db, SCAN_STATE, current_scan_total, current_scan_processed, photos,
                       next_photo_id, entities, api, requests>>

\* line 257: conn.commit(); db_error: it raises
LoopCommit(w, db_error) ==
    LET me == loops[w]
    IN  /\ me.pc = "commit"
        /\ IF db_error
           THEN /\ LoopDies(w)
                /\ UNCHANGED entities
           ELSE /\ entities' = entities \o me.txn
                /\ loops' = [loops EXCEPT ![w] = NextIteration]
        /\ UNCHANGED <<system, test_db, SCAN_STATE, current_scan_total, current_scan_processed, photos,
                       next_photo_id, api, unknown_allocs, requests>>

(***************************************************************************)
(* api/routes/scan.py: scan_single, on the test database                   *)
(***************************************************************************)
\* line 230: the negative starts of the single-scan path
single_negative_starts ==
    { <<"n","o"," ">>,
      <<"n","o","n","e">>,
      <<"n","/","a">>,
      <<"t","h","e","r","e"," ","a","r","e"," ","n","o">>,
      <<"n","o","t"," ">>,
      <<"a","r","e"," ","n","o">> }

\* f"Unknown {pet.title()}" for each pet of the list, in order
RECURSIVE SinglePetNames(_)
SinglePetNames(pets) ==
    IF pets = <<>> THEN <<>>
    ELSE <<UnknownPrefix \o StrTitle(Head(pets))>> \o SinglePetNames(Tail(pets))

\* lines 228-239: the entity names of the pet rows inserted for an answer
SingleParsePets(ai_response) ==
    IF ai_response.isNone \/ ai_response.text = <<>>
       \/ ~Contains(ai_response.text, EntitiesMarker)
    THEN <<>>
    ELSE LET entities_part == Strip(SplitOn(ai_response.text, EntitiesMarker)[2])
         IN  IF \E p \in single_negative_starts : StartsWith(StrLower(entities_part), p)
             THEN <<>>
             ELSE SinglePetNames(PetTokens(SplitOn(entities_part, <<",">>)))

SinglePetsOfResponse == [ r \in Responses |-> SingleParsePets(r) ]

\* line 251: if embedding and confidence > 0.85
SingleRepAccepted(rep) ==
    /\ rep.embedding # <<>>
    /\ rep.face_confidence > MinConfidence

\* lines 247-264: rows is what the connection sees, the person rows of the
\* photo are appended to it
RECURSIVE SingleFaces(_, _, _)
SingleFaces(reps, photo_id, rows) ==
    IF reps = <<>> THEN rows
    ELSE LET rep == Head(reps)
             matched_name == find_best_face_match(rep.embedding, rows)
             name == IF matched_name # <<>> THEN matched_name
                     ELSE UnknownPersonPrefix \o IntToStr(UnknownCount(rows) + 1)
         IN  IF ~SingleRepAccepted(rep)
             THEN SingleFaces(Tail(reps), photo_id, rows)
             ELSE SingleFaces(Tail(reps), photo_id,
                              Append(rows, PersonEntity(photo_id, name, rep.embedding)))

\* lines 105-305, one request: the upload f is described with model; the
\* handler has no await after line 113, and nothing else writes the test
\* database.  outcome "ok": the face step returns (enforce_detection=False:
\* no exception when there is no face); "Exception": DeepFace.represent of
\* line 244 raises, and the except of line 302 sets 'error' and commits
scan_single(f, model, ai_response, outcome) ==
    LET table == test_db.photos
        file_hash == Md5(FileBytes(f))
        \* lines 119-123
        cached == { id \in DOMAIN table :
                      /\ table[id].file_hash = file_hash
                      /\ table[id].status = "processed"
                      /\ table[id].ai_model = model }
        \* lines 169-173: uploads/<model>_<file name>
        filepath == <<model, FileName(f)>>
        \* lines 176-181
        existing == { id \in DOMAIN table : table[id].filepath = filepath }
        kept == [ id \in DOMAIN table \ existing |-> table[id] ]
        kept_entities == DeleteEntitiesOf(test_db.entities, existing)
        \* lines 188-193
        photo_id == test_db.next_photo_id
        \* lines 207-223
        updated == [filepath |-> filepath, file |-> f, status |-> "processed",
                    description |-> DescriptionOf(ai_response),
                    file_hash |-> file_hash, ai_model |-> model]
        \* lines 228-239
        with_pets == kept_entities \o PetRows(photo_id, SinglePetsOfResponse[ai_response])
        \* lines 242-264
        with_faces == IF DEEPFACE_AVAILABLE
                      THEN SingleFaces(Representations(FileBytes(f)), photo_id, with_pets)
                      ELSE with_pets
    IN  /\ api.pc = "ready"
        /\ requests' = requests + 1
        /\ test_db' =
              IF cached # {} THEN test_db
              ELSE IF outcome = "ok"
              THEN [photos |-> kept @@ (photo_id :> updated),
                    next_photo_id |-> photo_id + 1,
                    entities |-> with_faces]
              ELSE [photos |-> kept @@ (photo_id :> [updated EXCEPT !.status = "error"]),
                    next_photo_id |-> photo_id + 1,
                    entities |-> with_pets]
        /\ UNCHANGED <<system, SCAN_STATE, current_scan_total, current_scan_processed, photos,
                       next_photo_id, entities, loops, api, unknown_allocs>>

(***************************************************************************)
(* The system                                                              *)
(***************************************************************************)
\* the directories a scan request can name, as the image files under them
Directories == { {1}, {2}, {3} }
FaceOutcomes == {"ok", "ValueError", "Exception"}

\* the handlers' requests, at most max_requests of them, inserting photo rows
\* up to the id max_id
Requests(max_requests, max_id) ==
    /\ requests < max_requests
    /\ \/ \E dir \in Directories, force_rescan \in BOOLEAN :
             /\ LastIdAfter(dir, force_rescan) <= max_id
             /\ ScanInsert(dir, force_rescan)
       \/ PauseCheck
       \/ ResumeCheck
       \/ CancelState

HandlerSteps ==
    \/ ScanTrigger
    \/ PauseSet
    \/ ResumeSet
    \/ CancelDelete

\* the steps of the loop instances, with the outcomes of the environment drawn
\* from the given sets: io_errors (reading the file fails), responses (the
\* answer of the description service), outcomes (the face step), db_errors (a
\* database statement outside the inner try blocks raises)
LoopSteps(io_errors, responses, outcomes, db_errors) ==
    \/ \E w \in LoopIds : LoopTop(w)
    \/ \E w \in LoopIds : LoopCheckPaused(w)
    \/ \E w \in LoopIds : LoopFetch(w)
    \/ \E w \in LoopIds : LoopSetIdle(w)
    \/ \E w \in LoopIds : LoopFinish(w)
    \/ \E w \in LoopIds, db_error \in db_errors : LoopClassify(w, db_error)
    \/ \E w \in LoopIds, io_error \in io_errors : LoopHash(w, io_error)
    \/ \E w \in LoopIds, ai_response \in responses, db_error \in db_errors :
          LoopDescribe(w, ai_response, db_error)
    \/ \E w \in LoopIds, outcome \in outcomes : LoopFaces(w, outcome)
    \/ \E w \in LoopIds, db_error \in db_errors : LoopCommit(w, db_error)

\* every kind of request; the files are readable and the description service
\* answers
Next ==
    \/ Requests(MaxRequests, MaxPhotoId)
    \/ HandlerSteps
    \/ LoopSteps({FALSE}, Responses \ {NoResponse}, FaceOutcomes, BOOLEAN)

Spec == Init /\ [][Next]_vars

(***************************************************************************)
(* The same program with a quiet environment: only scan and cancel         *)
(* requests, no force_rescan, every file readable, every database          *)
(* statement succeeding, the description service down and no exception of  *)
(* the face step other than ValueError.                                    *)
(* Every behaviour of SpecRace is a behaviour of the program.              *)
(***************************************************************************)
RaceMaxRequests == 4
RaceMaxPhotoId == 3

RaceRequests ==
    /\ requests < RaceMaxRequests
    /\ \/ \E dir \in Directories :
             /\ LastIdAfter(dir, FALSE) <= RaceMaxPhotoId
             /\ ScanInsert(dir, FALSE)
       \/ CancelState

RaceHandlerSteps ==
    \/ ScanTrigger
    \/ CancelDelete

NextRace ==
    \/ RaceRequests
    \/ RaceHandlerSteps
    \/ LoopSteps({FALSE}, {NoResponse}, {"ok", "ValueError"}, {FALSE})

SpecRace == Init /\ [][NextRace]_vars

(***************************************************************************)
(* Scan requests only, every database statement succeeding; a file may be  *)
(* unreadable and the description service may be up or down.               *)
(***************************************************************************)
AppendRequests ==
    /\ requests < RaceMaxRequests
    /\ \E dir \in Directories :
          /\ LastIdAfter(dir, FALSE) <= RaceMaxPhotoId
          /\ ScanInsert(dir, FALSE)

NextAppend ==
    \/ AppendRequests
    \/ ScanTrigger
    \/ LoopSteps(BOOLEAN, Responses, {"ok", "ValueError"}, {FALSE})

SpecAppend == Init /\ [][NextAppend]_vars

(***************************************************************************)
(* Every kind of request, the control requests that change nothing         *)
(* included, with a quiet environment: every file readable,                *)
(* every database statement succeeding, the description service down and   *)
(* no face found.  Every behaviour of SpecControl is a behaviour of the    *)
(* program.                                                                *)
(***************************************************************************)
\* the actions a control request can name; "stop" is not one of the three
ControlActions == {"pause", "resume", "cancel", "stop"}

IgnoredRequests ==
    /\ requests < MaxRequests
    /\ \E action \in ControlActions : ControlIgnored(action)

NextControl ==
    \/ Requests(MaxRequests, MaxPhotoId)
    \/ IgnoredRequests
    \/ HandlerSteps
    \/ LoopSteps({FALSE}, {NoResponse}, {"ValueError"}, {FALSE})

SpecControl == Init /\ [][NextControl]_vars

(***************************************************************************)
(* The program under fairness, without cancel: scan requests (no           *)
(* force_rescan) and pause requests as long as the budget lasts, resume    *)
(* whenever the mode is paused.  Every file is readable, the description   *)
(* service answers, DeepFace returns or finds no face and no database      *)
(* statement raises.                                                       *)
(* Fairness: a handler that has started runs to its end (FastAPI runs it   *)
(* on the event loop), a paused scan is resumed, and every loop instance   *)
(* that can take a step takes it (each runs in its own thread, and every   *)
(* call it makes returns).                                                 *)
(***************************************************************************)
LiveRequests ==
    \/ /\ requests < MaxRequests
       /\ \E dir \in Directories :
             /\ LastIdAfter(dir, FALSE) <= MaxPhotoId
             /\ ScanInsert(dir, FALSE)
    \/ /\ requests < MaxRequests
       /\ PauseCheck
    \/ ResumeCheck

LiveHandlerSteps ==
    \/ ScanTrigger
    \/ PauseSet
    \/ ResumeSet

LiveLoopSteps == LoopSteps({FALSE}, Responses \ {NoResponse}, {"ok", "ValueError"}, {FALSE})

NextLive ==
    \/ LiveRequests
    \/ LiveHandlerSteps
    \/ LiveLoopSteps

\* a step of the loop instance w
LiveLoopStep(w) == LiveLoopSteps /\ loops'[w] # loops[w]

SpecLive ==
    /\ Init
    /\ [][NextLive]_vars
    /\ WF_vars(LiveHandlerSteps)
    /\ WF_vars(ResumeCheck)
    /\ \A w \in LoopSlots : WF_vars(LiveLoopStep(w))

(***************************************************************************)
(* The face step on chosen inputs: a scan has queued two portraits of the  *)
(* same face (different bytes, identical embedding) and started the loop;  *)
(* the store is empty or holds the rows of a.jpg, processed earlier with   *)
(* the description service down.  Nothing else is requested, every file is *)
(* readable, the description service is down and DeepFace returns.         *)
(***************************************************************************)
\* the entity rows and the allocations of a.jpg processed on an empty store
StoreOfA ==
    ResolveFaces(Representations(FileBytes(1)), 1, <<>>, [txn |-> <<>>, allocs |-> <<>>])

\* the photo row of a.jpg after lines 112-130
ProcessedA ==
    [file |-> 1, status |-> "processed", description |-> DescriptionOf(NoResponse),
     file_size |-> FileSize(FileBytes(1)), file_hash |-> Md5(FileBytes(1)),
     ai_model |-> ACTIVE_OLLAMA_MODEL]

InitFaces ==
    \E k \in DOMAIN FaceEmbeddings, stored \in BOOLEAN :
        LET old == IF stored THEN <<ProcessedA>> ELSE <<>>
        IN  /\ SCAN_STATE = "running"
            /\ current_scan_total = 2
            /\ current_scan_processed = 0
            /\ photos = old \o <<NewPhoto(FaceFile(k, 0)), NewPhoto(FaceFile(k, 1))>>
            /\ next_photo_id = Len(old) + 3
            /\ entities = IF stored THEN StoreOfA.txn ELSE <<>>
            /\ loops = [w \in LoopSlots |-> IF w = 1 THEN NextIteration ELSE NoLoop]
            /\ api = [pc |-> "ready", added |-> 0]
            /\ requests = Len(old) + 1
            /\ unknown_allocs = IF stored THEN StoreOfA.allocs ELSE <<>>
            /\ test_db = EmptyTestDb
            /\ system = NoSystem

NextFaces == LoopSteps({FALSE}, {NoResponse}, {"ok"}, {FALSE})

SpecFaces == InitFaces /\ [][NextFaces]_vars

(***************************************************************************)
(* The duplicate filter on chosen stores: the table holds the row of       *)
(* a.jpg as an earlier run left it, hashed: processed by the model of this *)
(* run, processed in a run configured with another model, or marked        *)
(* duplicate (its own twin purged since).  A scan has queued b.jpg, which  *)
(* has the same bytes, or a portrait with other bytes, and started the     *)
(* loop.  Reading the file can fail and a database statement can raise;    *)
(* the description service is down and no face is found.                   *)
(***************************************************************************)
\* a value of core/config.py ACTIVE_OLLAMA_MODEL in an earlier run
OtherModel == "llava:13b"

\* the row of a.jpg: lines 112-130 under either model, or lines 80-84
StoredRows ==
    { ProcessedA,
      [ProcessedA EXCEPT !.ai_model = OtherModel],
      [ProcessedA EXCEPT !.status = "duplicate", !.description = NullText,
                         !.ai_model = ""] }

InitDup ==
    \E stored \in StoredRows, f \in {2, FaceFile(1, 0)} :
        /\ SCAN_STATE = "running"
        /\ current_scan_total = 1
        /\ current_scan_processed = 0
        /\ photos = <<stored, NewPhoto(f)>>
        /\ next_photo_id = 3
        /\ entities = <<>>
        /\ loops = [w \in LoopSlots |-> IF w = 1 THEN NextIteration ELSE NoLoop]
        /\ api = [pc |-> "ready", added |-> 0]
        /\ requests = 2
        /\ unknown_allocs = <<>>
        /\ test_db = EmptyTestDb
        /\ system = NoSystem

NextDup == LoopSteps(BOOLEAN, {NoResponse}, {"ValueError"}, BOOLEAN)

SpecDup == InitDup /\ [][NextDup]_vars

(***************************************************************************)
(* The description step on chosen answers: a scan has queued a.jpg and     *)
(* started the loop, and the description service gives any answer of       *)
(* PetResponses.  The face step returns or finds no face.                  *)
(***************************************************************************)
InitPets ==
    /\ SCAN_STATE = "running"
    /\ current_scan_total = 1
    /\ current_scan_processed = 0
    /\ photos = <<NewPhoto(1)>>
    /\ next_photo_id = 2
    /\ entities = <<>>
    /\ loops = [w \in LoopSlots |-> IF w = 1 THEN NextIteration ELSE NoLoop]
    /\ api = [pc |-> "ready", added |-> 0]
    /\ requests = 1
    /\ unknown_allocs = <<>>
    /\ test_db = EmptyTestDb
    /\ system = NoSystem

NextPets == LoopSteps({FALSE}, PetResponses, {"ok", "ValueError"}, {FALSE})

SpecPets == InitPets /\ [][NextPets]_vars

(***************************************************************************)
(* find_best_face_match on chosen tables: the entities table holds up to   *)
(* MatchMaxStored person rows, each with any embedding of MatchEmbeddings  *)
(* (the column is nullable), after a pet row or not; the rows belong to    *)
(* a.jpg, processed earlier.  A scan has queued one portrait and started   *)
(* the loop.  Every file is readable, the description service is down and  *)
(* DeepFace returns.                                                       *)
(***************************************************************************)
MatchMaxStored == 3

\* stored embeddings: NULL, norm 0, and vectors at the cosine distances 0,
\* 0.2 (twice), 0.4 and 2 of the portrait <<3, 0>>
MatchEmbeddings ==
    { <<>>, <<0, 0>>, <<3, 0>>, <<4, 3>>, <<4, -3>>, <<3, 4>>, <<-3, 0>> }

\* the name the row at position i was renamed to
StoredName(i) == <<"P">> \o IntToStr(i)

InitMatch ==
    \E k \in DOMAIN FaceEmbeddings, n \in 0..MatchMaxStored, with_pet \in BOOLEAN :
        \E embs \in [1..n -> MatchEmbeddings] :
            /\ SCAN_STATE = "running"
            /\ current_scan_total = 1
            /\ current_scan_processed = 0
            /\ photos = <<ProcessedA, NewPhoto(FaceFile(k, 0))>>
            /\ next_photo_id = 3
            /\ entities =
                  (IF with_pet THEN <<PetEntity(1, UnknownPrefix \o <<"R","e","x">>)>> ELSE <<>>)
                  \o [ i \in 1..n |-> PersonEntity(1, StoredName(i), embs[i]) ]
            /\ loops = [w \in LoopSlots |-> IF w = 1 THEN NextIteration ELSE NoLoop]
            /\ api = [pc |-> "ready", added |-> 0]
            /\ requests = 2
            /\ unknown_allocs = <<>>
            /\ test_db = EmptyTestDb
            /\ system = NoSystem

NextMatch == LoopSteps({FALSE}, {NoResponse}, {"ok"}, {FALSE})

SpecMatch == InitMatch /\ [][NextMatch]_vars

(***************************************************************************)
(* The single-scan path alone: up to SingleMaxRequests uploads of a.jpg,   *)
(* b.jpg (the bytes of a.jpg) or one of two portraits (one file name,      *)
(* different bytes), described with either model; the description service  *)
(* answers or is down and DeepFace returns or raises.                      *)
(***************************************************************************)
SingleMaxRequests == 3

SingleFiles == {1, 2, FaceFile(1, 0), FaceFile(1, 1)}
SingleModels == {ACTIVE_OLLAMA_MODEL, OtherModel}

NextSingle ==
    \E f \in SingleFiles, model \in SingleModels, ai_response \in Responses,
       outcome \in {"ok", "Exception"} :
        /\ requests < SingleMaxRequests
        /\ scan_single(f, model, ai_response, outcome)

SpecSingle == Init /\ [][NextSingle]_vars

(***************************************************************************)
(* The description step with the adapter in front of the service: a scan   *)
(* has queued a.jpg and a portrait and started the loop; each call of      *)
(* line 95 comes to any of ServiceResults.  Every file is readable for the *)
(* hash, no database statement raises.                                     *)
(***************************************************************************)
InitService ==
    /\ SCAN_STATE = "running"
    /\ current_scan_total = 2
    /\ current_scan_processed = 0
    /\ photos = <<NewPhoto(1), NewPhoto(FaceFile(1, 0))>>
    /\ next_photo_id = 3
    /\ entities = <<>>
    /\ loops = [w \in LoopSlots |-> IF w = 1 THEN NextIteration ELSE NoLoop]
    /\ api = [pc |-> "ready", added |-> 0]
    /\ requests = 1
    /\ unknown_allocs = <<>>
    /\ test_db = EmptyTestDb
    /\ system = NoSystem

NextService == LoopSteps({FALSE}, AdapterResponses, FaceOutcomes, {FALSE})

SpecService == InitService /\ [][NextService]_vars

(***************************************************************************)
(* The description step on the answers of TokenResponses: a scan has       *)
(* queued a.jpg and started the loop.  The face step returns or finds no   *)
(* face, or raises.                                                        *)
(***************************************************************************)
NextTokens == LoopSteps({FALSE}, TokenResponses, FaceOutcomes, {FALSE})

SpecTokens == InitPets /\ [][NextTokens]_vars

(***************************************************************************)
(* Scans, renames and deletions of entities: up to NamesMaxRequests        *)
(* requests, a scan of a.jpg or of a portrait nobody resembles (with or    *)
(* without force_rescan), the renaming of a name of the table and the      *)
(* deletion of one.  Every file is readable, the description service is    *)
(* down, DeepFace returns and no database statement raises.                *)
(***************************************************************************)
NamesMaxRequests == 3
NamesMaxPhotoId == 2

NamesDirectories == { {1}, {FaceFile(4, 0)} }

\* the names of the rows of the table
StoredNames == { entities[i].entity_name : i \in DOMAIN entities }

\* the name a request renames to
NewNames == { <<"A","n","n">> }

NamesRequests ==
    /\ requests < NamesMaxRequests
    /\ \/ \E dir \in NamesDirectories, force_rescan \in BOOLEAN :
             /\ LastIdAfter(dir, force_rescan) <= NamesMaxPhotoId
             /\ ScanInsert(dir, force_rescan)
       \/ \E old_name \in StoredNames, new_name \in NewNames :
             name_main_entity(old_name, new_name)
       \/ \E entity_name \in StoredNames : delete_main_entity(entity_name)

NextNames ==
    \/ NamesRequests
    \/ ScanTrigger
    \/ LoopSteps({FALSE}, {NoResponse}, {"ok"}, {FALSE})

SpecNames == Init /\ [][NextNames]_vars

(***************************************************************************)
(* Twins: scans of a directory that holds a.jpg and b.jpg, which have the  *)
(* same bytes, and cancellations.  No force_rescan, every file readable,   *)
(* every database statement succeeding, the description service down and   *)
(* no face found.                                                          *)
(***************************************************************************)
TwinsMaxLoops == 3
TwinsMaxRequests == 5
TwinsMaxPhotoId == 6

TwinsDirectories == { {1, 2} }

TwinsRequests ==
    /\ requests < TwinsMaxRequests
    /\ \/ \E dir \in TwinsDirectories :
             /\ LastIdAfter(dir, FALSE) <= TwinsMaxPhotoId
             /\ ScanInsert(dir, FALSE)
       \/ CancelState

NextTwins ==
    \/ TwinsRequests
    \/ RaceHandlerSteps
    \/ LoopSteps({FALSE}, {NoResponse}, {"ValueError"}, {FALSE})

InitTwins ==
    /\ SCAN_STATE = "idle"
    /\ current_scan_total = 0
    /\ current_scan_processed = 0
    /\ photos = <<>>
    /\ next_photo_id = 1
    /\ entities = <<>>
    /\ loops = [w \in 1..TwinsMaxLoops |-> NoLoop]
    /\ api = [pc |-> "ready", added |-> 0]
    /\ requests = 0
    /\ unknown_allocs = <<>>
    /\ test_db = EmptyTestDb
    /\ system = NoSystem

SpecTwins == InitTwins /\ [][NextTwins]_vars

(***************************************************************************)
(* Scans of a.jpg, pause, resume and cancel, and the requests to           *)
(* /api/database/clean, /backup and /restore.  Every file is readable, the *)
(* description service is down, no face is found and no database statement *)
(* raises.                                                                 *)
(***************************************************************************)
SystemMaxRequests == 3
SystemMaxPhotoId == 2

SystemRequests ==
    /\ requests < SystemMaxRequests
    /\ \/ /\ LastIdAfter({1}, FALSE) <= SystemMaxPhotoId
          /\ ScanInsert({1}, FALSE)
       \/ PauseCheck
       \/ ResumeCheck
       \/ CancelState
       \/ \E target \in {"main", "test"} : clean_database(target)
       \/ trigger_backup
       \/ \E filename \in DOMAIN system.backups : trigger_restore(filename)

NextSystem ==
    \/ SystemRequests
    \/ HandlerSteps
    \/ LoopSteps({FALSE}, {NoResponse}, {"ValueError"}, {FALSE})

SpecSystem == Init /\ [][NextSystem]_vars

(***************************************************************************)
(* Properties                                                              *)
(***************************************************************************)
TerminalStatuses == {"processed", "duplicate", "screenshot"}

\* the committed and the uncommitted entity rows of photo id
EntityRowsOf(id) ==
    { i \in DOMAIN entities : entities[i].photo_id = id }
CommittedOf(id, type) ==
    { i \in DOMAIN entities :
        entities[i].photo_id = id /\ entities[i].entity_type = type }
UncommittedOf(w, id, type) ==
    { i \in DOMAIN loops[w].txn :
        loops[w].txn[i].photo_id = id /\ loops[w].txn[i].entity_type = type }

\* C1: a scan request made while the mode is running or paused starts no
\* loop instance and only adds its photos to the queue and to
\* current_scan_total, and the instance that is already active drains the
\* photos of both batches: when the handlers are at rest and no instance is
\* left, no photo is still pending.
C1_BatchesDrained ==
    (api.pc = "ready" /\ AliveLoops = {}) => PendingIds = {}

\* C2: at most one background_processor instance is active in every
\* reachable state.
C2_AtMostOneLoop == Cardinality(ActiveLoops) <= 1

\* C3: a cancel request made while the mode is running sets the mode to idle,
\* deletes every pending photo row and leaves every other photo row, with
\* all its columns, unchanged.
C3_CancelStep ==
    /\ (api.pc = "ready" /\ api'.pc = "cancel_delete" /\ SCAN_STATE = "running")
          => (SCAN_STATE' = "idle" /\ photos' = photos /\ entities' = entities)
    /\ (api.pc = "cancel_delete" /\ api'.pc = "ready")
          => /\ SCAN_STATE' = "idle"
             /\ DOMAIN photos' = { id \in DOMAIN photos : photos[id].status # "pending" }
             /\ \A id \in DOMAIN photos' : photos'[id] = photos[id]
             /\ entities' = entities
PetsOfDescription ==
    [ d \in { DescriptionOf(r) : r \in Responses } |-> ParsePets(d) ]

\* C4: when the face step of a photo raises an unexpected exception, the
\* UPDATE to 'processed' committed before it stands (the step leaves the photo
\* table alone), no person row is created for the photo, and the pet rows
\* inserted before the face step stay in the transaction and are committed by
\* the commit that ends the iteration.
C4_FaceFailureStep ==
    \A w \in LoopIds :
        LET id == loops[w].photo_id
        IN  /\ (loops[w].pc = "describe" /\ loops'[w].pc = "faces" /\ id \in DOMAIN photos)
                  => /\ photos'[id].status = "processed"
                     /\ photos'[id].description \in DOMAIN PetsOfDescription
                     /\ loops'[w].txn = PetRows(id, PetsOfDescription[photos'[id].description])
            /\ (loops[w].pc = "faces" /\ loops'[w].pc = "commit"
                  /\ loops'[w].log = "DeepFace processing error")
                  => /\ photos' = photos
                     /\ entities' = entities
                     /\ loops'[w].txn = loops[w].txn
                     /\ \A i \in DOMAIN loops'[w].txn :
                           loops'[w].txn[i].entity_type = "pet"
            /\ (loops[w].pc = "commit" /\ loops'[w].pc = "top")
                  => /\ photos' = photos
                     /\ entities' = entities \o loops[w].txn
C4_FaceFailureKeepsDescription == [][C4_FaceFailureStep]_vars

\* C4 witness: the face step of an instance has raised an unexpected exception
\* for a processed photo with a description and an uncommitted pet row
C4_Witness ==
    \E w \in LoopIds :
        /\ loops[w].pc = "commit"
        /\ loops[w].log = "DeepFace processing error"
        /\ loops[w].photo_id \in DOMAIN photos
        /\ photos[loops[w].photo_id].status = "processed"
        /\ photos[loops[w].photo_id].description.text # <<>>
        /\ UncommittedOf(w, loops[w].photo_id, "pet") # {}
        /\ UncommittedOf(w, loops[w].photo_id, "person") = {}

\* C5: an exception that no inner handler catches never ends the loop: the
\* instance that holds a fetched photo is still there after every step (and
\* the photo is set to 'error').
C5_LoopSurvivesStep ==
    \A w \in LoopIds : InFlight(w) => loops'[w].pc # "none"
C5_LoopSurvives == [][C5_LoopSurvivesStep]_vars

\* the files whose name matches a screenshot pattern (case-insensitive)
ScreenshotNamedFiles ==
    { f \in Files :
        \E term \in { <<"s","c","r","e","e","n","s","h","o","t">>,
                      <<"s","c","r","e","e","n"," ","s","h","o","t">>,
                      <<"s","n","i","p">>,
                      <<"c","a","p","t","u","r","e">> } :
            Contains(StrLower(FileName(f)), term) }
NameMatchesScreenshot(f) == f \in ScreenshotNamedFiles

\* C6: of two photos with identical bytes and no screenshot name, hashed and
\* classified under the same model, the one fetched first (the lower id) is
\* processed and the other one is a duplicate with the same file_hash, no
\* description and no entity.
C6_TwinsClassified ==
    \A p, q \in DOMAIN photos :
        ( /\ p < q
          /\ FileBytes(photos[p].file) = FileBytes(photos[q].file)
          /\ ~NameMatchesScreenshot(photos[p].file)
          /\ ~NameMatchesScreenshot(photos[q].file)
          /\ photos[p].status # "pending" /\ photos[q].status # "pending"
          /\ photos[p].file_hash # 0 /\ photos[q].file_hash # 0
          /\ \A w \in LoopIds : loops[w].photo_id \notin {p, q} )
        => /\ photos[p].status = "processed"
           /\ photos[q].status = "duplicate"
           /\ photos[q].file_hash = photos[p].file_hash
           /\ photos[q].description = NullText
           /\ EntityRowsOf(q) = {}

\* C7: a photo whose lower-cased file name contains a screenshot term is never
\* hashed, described or given an entity, and the instance that classifies it
\* sets its status to 'screenshot' and goes on to the next iteration.
C7_ScreenshotRows ==
    \A id \in DOMAIN photos :
        NameMatchesScreenshot(photos[id].file)
        => /\ photos[id].status \in {"pending", "screenshot"}
           /\ photos[id].file_hash = 0
           /\ photos[id].file_size = 0
           /\ photos[id].description = NullText
           /\ photos[id].ai_model = ""
           /\ EntityRowsOf(id) = {}
           /\ \A w \in LoopIds :
                 loops[w].photo_id = id => (loops[w].txn = <<>> /\ loops[w].txn_hash = 0)
C7_ClassifyStep ==
    \A w \in LoopIds :
        (loops[w].pc = "classify" /\ NameMatchesScreenshot(loops[w].file))
        => /\ loops'[w].pc \in {"classify", "top", "none"}
           /\ (loops'[w].pc = "top" /\ loops[w].photo_id \in DOMAIN photos)
                 => photos'[loops[w].photo_id].status = "screenshot"
C7_ScreenshotSkipped == []C7_ScreenshotRows /\ [][C7_ClassifyStep]_vars

\* C7 witness: a photo with a screenshot name has been classified
C7_Witness ==
    \E id \in DOMAIN photos :
        /\ NameMatchesScreenshot(photos[id].file)
        /\ photos[id].status = "screenshot"

\* C8: no photo is held by two loop instances at the same time.
C8_OneLoopPerPhoto ==
    \A v, w \in LoopIds :
        (v # w /\ InFlight(v) /\ InFlight(w)) => loops[v].photo_id # loops[w].photo_id

\* C9: once the status of a photo is processed, duplicate or screenshot, no
\* step changes it.
C9_TerminalStep ==
    \A id \in DOMAIN photos :
        (photos[id].status \in TerminalStatuses /\ id \in DOMAIN photos')
        => photos'[id].status = photos[id].status
C9_TerminalStatusKept == [][C9_TerminalStep]_vars

\* C10: the numbers N of the names "Unknown Person N" allocated in one run are
\* strictly increasing.
C10_UnknownNumbersIncrease ==
    \A i, j \in DOMAIN unknown_allocs :
        i < j => unknown_allocs[i] < unknown_allocs[j]

\* the pairs of committed person rows that hold the same embedding
SameFaceRows ==
    { p \in (DOMAIN entities) \X (DOMAIN entities) :
        /\ p[1] < p[2]
        /\ entities[p[1]].entity_type = "person"
        /\ entities[p[2]].entity_type = "person"
        /\ entities[p[1]].embedding = entities[p[2]].embedding }

\* C11 as stated: for every embedding that passes the acceptance filter,
\* resolved twice in succession, the second time with the person row of the
\* first resolution persisted, both person rows carry the same entity_name.
C11_SameIdentity ==
    \A p \in SameFaceRows : entities[p[1]].entity_name = entities[p[2]].entity_name

\* C11, amended: the same for every accepted embedding whose norm is not 0:
\* two person rows of one non-zero embedding carry the same entity_name, so
\* no second unknown identity is allocated for it.
C11_SameIdentityNonZero ==
    \A p \in SameFaceRows :
        NormSq(entities[p[1]].embedding) # 0
            => entities[p[1]].entity_name = entities[p[2]].entity_name

\* both portraits of a face nobody in the store resembles are committed
C11_Witness ==
    \E p \in SameFaceRows :
        /\ NormSq(entities[p[1]].embedding) # 0
        /\ entities[p[1]].photo_id # entities[p[2]].photo_id
        /\ entities[p[1]].embedding = FaceEmbeddings[4]
        /\ StartsWith(entities[p[2]].entity_name, UnknownPersonPrefix)
        /\ Len(entities) > 2

\* the uncommitted entity rows of the loop instances w and above
RECURSIVE TxnRowsFrom(_)
TxnRowsFrom(w) ==
    IF w \notin LoopIds THEN <<>> ELSE loops[w].txn \o TxnRowsFrom(w + 1)

\* the names of the pet rows of photo id, committed or not, in insertion order
PetNamesOf(id) ==
    LET rows == SelectSeq(entities \o TxnRowsFrom(1),
                          LAMBDA row : row.photo_id = id /\ row.entity_type = "pet")
    IN  [ i \in DOMAIN rows |-> rows[i].entity_name ]

\* the text that follows the first "Entities:" of text, trimmed
AfterMarker(text) ==
    Strip(SubSeq(text, FindSub(text, EntitiesMarker) + Len(EntitiesMarker), Len(text)))

\* the tokens of a comma-separated list: the non-blank pieces, without
\* surrounding whitespace and trailing periods
ListTokens(list) == PetTokens(SplitOn(list, <<",">>))

\* the text holds the marker and every token after it passes the rejection rules
IsListOfNames(text) ==
    /\ Contains(text, EntitiesMarker)
    /\ LET tokens == ListTokens(AfterMarker(text))
       IN  \A i \in DOMAIN tokens : PetAccepted(tokens[i])

\* 'Unknown ' followed by the title-cased token, for each token
NamesOfList(text) ==
    LET tokens == ListTokens(AfterMarker(text))
    IN  [ i \in DOMAIN tokens |-> UnknownPrefix \o StrTitle(tokens[i]) ]

\* the claim's negative statements: the trimmed text after the marker
\* starts, whatever the case, with a negative start, or is one of the four
\* whole answers
IsNegativeStatement(text) ==
    LET after == StrLower(AfterMarker(text))
    IN  \/ \E p \in negative_starts : StartsWith(after, p)
        \/ after \in negative_whole

\* the photos whose description step is done
DescribedIds ==
    { id \in DOMAIN photos :
        photos[id].status = "processed" /\ ~photos[id].description.isNone }

\* C12 as stated: for a description whose text after 'Entities:' is a
\* comma-separated list of tokens that all pass the rejection rules, the
\* worker inserts exactly one pet entity per token, named 'Unknown ' and the
\* title-cased token, and no other pet entity for that photo.
C12_OnePetPerToken ==
    \A id \in DescribedIds :
        IsListOfNames(photos[id].description.text)
            => PetNamesOf(id) = NamesOfList(photos[id].description.text)

\* C12, amended: the same for a list that is not a negative statement (the
\* text after the marker does not start with a negative start).
C12_OnePetPerListedToken ==
    \A id \in DescribedIds :
        (/\ IsListOfNames(photos[id].description.text)
         /\ ~IsNegativeStatement(photos[id].description.text))
            => PetNamesOf(id) = NamesOfList(photos[id].description.text)

\* two lower-case names, the second of two words, were listed and inserted
C12_Witness ==
    \E id \in DescribedIds :
        /\ IsListOfNames(photos[id].description.text)
        /\ ~IsNegativeStatement(photos[id].description.text)
        /\ Len(NamesOfList(photos[id].description.text)) = 2
        /\ PetNamesOf(id) = << UnknownPrefix \o <<"R","e","x">>,
                               UnknownPrefix \o <<"M","r"," ","W","h","i","s","k","e","r","s">> >>

C14_EntitiesHavePhotos ==
    \A i \in DOMAIN entities : entities[i].photo_id \in DOMAIN photos

\* C15: however pause and resume interleave with the loop's own step from
\* running to idle on an empty queue, the mode is running or paused only
\* while a loop instance is alive: never a mode other than idle with no loop.
C15_ModeHasLoop ==
    SCAN_STATE # "idle" => AliveLoops # {}

\* the step fetches a photo for instance w
Fetches(w) == loops'[w].pc = "classify" /\ loops[w].pc # "classify"

\* the step of an instance that holds a photo is a step of that item, or the
\* end of the instance by an exception that nothing catches
ItemStep(w) ==
    \/ loops[w].pc = "classify" /\ loops'[w].pc \in {"hash", "top", "none"}
    \/ loops[w].pc = "hash" /\ loops'[w].pc \in {"describe", "top"}
    \/ loops[w].pc = "describe" /\ loops'[w].pc \in {"faces", "none"}
    \/ loops[w].pc = "faces" /\ loops'[w].pc = "commit"
    \/ loops[w].pc = "commit" /\ loops'[w].pc \in {"top", "none"}

\* a cancel request has been served in full (scan.py lines 323-338) and no
\* scan request has been made since; another cancel may be under way
Cancelled ==
    /\ api.pc \in {"ready", "cancel_delete"}
    /\ SCAN_STATE = "idle"
    /\ PendingIds = {}

\* the step is a step of a scan request
IsScanStep == api.pc = "scan_trigger" \/ api'.pc = "scan_trigger"

C16_CancelStep ==
    /\ (api.pc = "cancel_delete" /\ api'.pc = "ready") => Cancelled'
    /\ (Cancelled /\ ~IsScanStep) =>
          /\ Cancelled'
          /\ \A w \in LoopIds :
                \* no further photo is fetched
                /\ ~Fetches(w)
                \* cancel does not stop the item in flight
                /\ (InFlight(w) /\ loops'[w] # loops[w]) => ItemStep(w)
                \* the top of the next iteration sees idle and leaves the loop
                /\ (loops[w].pc = "top" /\ loops'[w] # loops[w]) => loops'[w].pc = "finish"
                /\ (loops[w].pc = "finish" /\ loops'[w] # loops[w]) => ~Alive(w)'
                /\ ~Alive(w) => ~Alive(w)'

\* C16: after a cancel that no scan follows, the loop fetches no further
\* pending photo: the item in flight goes through its description and
\* entity steps, and the loop then sees idle at the top of its next
\* iteration and terminates.
C16_CancelStopsLoop == [][C16_CancelStep]_vars

\* one scan, then a cancel served in full: the instance still holds its
\* photo and is at the commit of line 257
C16_Witness ==
    /\ Cancelled
    /\ api.pc = "ready"
    /\ requests = 2
    /\ \E w \in LoopIds : loops[w].pc = "commit"

C17_PausedStep ==
    SCAN_STATE = "paused" =>
        \A w \in LoopIds :
            /\ ~Fetches(w)
            /\ Alive(w) => Alive(w)'
            /\ loops'[w].pc \notin {"set_idle", "finish"} \/ loops'[w] = loops[w]

C17_PollStep ==
    \A w \in LoopIds :
        \* line 41 finds paused: the loop goes on to line 44
        /\ (loops[w].pc = "top" /\ loops'[w] # loops[w]) =>
              loops'[w].pc = IF SCAN_STATE = "idle" THEN "finish" ELSE "chk_paused"
        \* line 44 finds paused: back to line 41, nothing fetched, nothing written
        /\ (loops[w].pc = "chk_paused" /\ loops'[w] # loops[w]) =>
              /\ loops'[w].pc = IF SCAN_STATE = "paused" THEN "top" ELSE "fetch"
              /\ UNCHANGED <<SCAN_STATE, photos, entities>>
        \* nothing else ends or moves a polling instance
        /\ loops[w].pc \in {"top", "chk_paused"} =>
              loops'[w].pc \in {"top", "chk_paused", "fetch", "finish"}
        \* the pause handler touches no instance, and an instance that holds
        \* a photo goes on with it whatever the mode
        /\ (api.pc = "pause_set" /\ api'.pc = "ready") => loops'[w] = loops[w]
        /\ (InFlight(w) /\ loops'[w] # loops[w]) => ItemStep(w)

C18_QueueDrained ==
    /\ \A id \in 1..MaxPhotoId :
          (id \in PendingIds)
              ~> (id \in DOMAIN photos /\ photos[id].status \in TerminalStatuses)
    /\ (PendingIds = {})
          ~> (/\ SCAN_STATE = "idle"
              /\ current_scan_total = 0
              /\ current_scan_processed = 0
              /\ AliveLoops = {})

\* the step is a step of the control endpoint
IsControlStep ==
    /\ api' # api \/ requests' # requests
    /\ ~IsScanStep

C19_ControlStep ==
    IsControlStep =>
        \* the mode changes only along the allowed transitions
        /\ SCAN_STATE' # SCAN_STATE =>
              \/ api.pc = "pause_set" /\ SCAN_STATE = "running" /\ SCAN_STATE' = "paused"
              \/ api.pc = "resume_set" /\ SCAN_STATE = "paused" /\ SCAN_STATE' = "running"
              \/ api'.pc = "cancel_delete" /\ SCAN_STATE' = "idle"
        /\ api'.pc = "cancel_delete" => SCAN_STATE' = "idle"
        \* only cancel changes the photo table
        /\ photos' # photos => api.pc = "cancel_delete"
        \* a request that is answered at once has changed nothing
        /\ (api.pc = "ready" /\ api'.pc = "ready") =>
              UNCHANGED <<SCAN_STATE, photos, entities>>
        \* no loop instance is started, or touched
        /\ loops' = loops

\* C19: the control endpoint changes the mode only from running to paused
\* (pause), from paused to running (resume) and from any mode to idle
\* (cancel); a pause in idle or paused, a resume in idle or running and an
\* invalid action leave the mode and the photo table as they are, and no
\* control action starts a loop instance.
C19_ControlTransitions == [][C19_ControlStep]_vars

\* the rows with the hash of the file of instance w, status processed and
\* the active model
ProcessedTwins(w) ==
    { id \in DOMAIN photos :
        /\ photos[id].file_hash = Md5(FileBytes(loops[w].file))
        /\ photos[id].status = "processed"
        /\ photos[id].ai_model = ACTIVE_OLLAMA_MODEL }

\* the step sets the status of photo id to duplicate
MarksDuplicate(id) ==
    /\ id \in DOMAIN photos /\ id \in DOMAIN photos'
    /\ photos[id].status # "duplicate"
    /\ photos'[id].status = "duplicate"

C20_DuplicateStep ==
    /\ \A id \in DOMAIN photos :
          MarksDuplicate(id) =>
              \E w \in LoopIds :
                  /\ loops[w].pc = "hash" /\ loops[w].photo_id = id
                  /\ ProcessedTwins(w) # {}
    /\ \A w \in LoopIds :
          \* no such row: the photo is not marked and goes to the description
          /\ (loops[w].pc = "hash" /\ loops'[w] # loops[w] /\ ProcessedTwins(w) = {}) =>
                /\ loops'[w].pc = "describe"
                /\ photos' = photos
          \* the description step sets it to processed
          /\ (loops[w].pc = "describe" /\ loops'[w].pc = "faces"
                 /\ loops[w].photo_id \in DOMAIN photos) =>
                photos'[loops[w].photo_id].status = "processed"

\* C20: the worker marks a photo duplicate only if, at the time of the
\* check, some row has the same file_hash, the status processed and the
\* active model as ai_model; a processed row with the same hash and another
\* ai_model, or a row with the same hash that is not processed, causes no
\* duplicate marking, and the photo then goes through the description step
\* to the status processed.
C20_DuplicateOnlyOfProcessed == [][C20_DuplicateStep]_vars

\* next to a processed row with the same hash and another model, b.jpg has
\* been hashed and processed
C20_Witness ==
    /\ photos[1].status = "processed"
    /\ photos[1].ai_model = OtherModel
    /\ photos[2].status = "processed"
    /\ photos[2].file_hash = photos[1].file_hash
    /\ photos[2].ai_model = ACTIVE_OLLAMA_MODEL

\* the stored rows the claim compares the query with: person rows whose
\* embedding is neither null nor of norm 0
Candidates(rows) ==
    { i \in DOMAIN rows :
        /\ rows[i].entity_type = "person"
        /\ rows[i].embedding # <<>>
        /\ NormSq(rows[i].embedding) # 0 }

\* the sign of x times x squared
SignedSq(x) == IF x >= 0 THEN x * x ELSE 0 - x * x

\* the cosine of the angle between q and a is greater than the one between
\* q and b, i.e. a is at the smaller cosine distance of q
Nearer(q, a, b) ==
    SignedSq(Dot(q, a)) * NormSq(b) > SignedSq(Dot(q, b)) * NormSq(a)

\* the first position among the candidates at the smallest distance of q
NearestRow(q, rows) ==
    CHOOSE i \in Candidates(rows) :
        \A j \in Candidates(rows) :
            /\ ~Nearer(q, rows[j].embedding, rows[i].embedding)
            /\ j < i => Nearer(q, rows[i].embedding, rows[j].embedding)

\* the cosine distance of q and a is strictly below 0.40: the cosine is
\* above 3/5
DistanceBelow040(q, a) ==
    /\ Dot(q, a) > 0
    /\ 25 * Dot(q, a) * Dot(q, a) > 9 * NormSq(q) * NormSq(a)

\* what the claim says the function returns, <<>> for no match
ClaimedMatch(q, rows) ==
    IF NormSq(q) = 0 \/ Candidates(rows) = {} THEN <<>>
    ELSE LET best == rows[NearestRow(q, rows)]
         IN  IF DistanceBelow040(q, best.embedding) THEN best.entity_name ELSE <<>>

\* the step is the face step of instance w, DeepFace having returned
FaceStep(w) ==
    /\ loops[w].pc = "faces"
    /\ loops'[w].pc = "commit"
    /\ loops'[w].log \notin {"No face found", "DeepFace processing error"}

C21_MatchStep ==
    \A w \in LoopIds :
        (FaceStep(w) /\ Len(Representations(FileBytes(loops[w].file))) = 1) =>
            LET rep == Representations(FileBytes(loops[w].file))[1]
                visible == entities \o loops[w].txn
                claimed == ClaimedMatch(rep.embedding, visible)
            IN  loops'[w].txn = Append(loops[w].txn,
                    PersonEntity(loops[w].photo_id,
                                 IF claimed # <<>> THEN claimed
                                 ELSE UnknownPersonPrefix \o IntToStr(UnknownCount(visible) + 1),
                                 rep.embedding))

\* C21: find_best_face_match returns the name of the stored person row
\* whose embedding is at the smallest cosine distance of the query (the
\* first one met on ties; rows with a null or zero-norm embedding are
\* skipped) if and only if that distance is strictly below 0.40; otherwise,
\* and always for a query of norm 0, it returns no match.  Seen at its call
\* of line 226: the person row of the face carries the returned name, or a
\* new unknown name when nothing is returned.
C21_BestMatchReturned == [][C21_MatchStep]_vars

\* the portrait <<3, 0>> was resolved against two rows at the same distance
\* 0.2, after a row of norm 0, and took the name of the first of the two
C21_Witness ==
    /\ Len(entities) = 3
    /\ entities[1].embedding = <<0, 0>>
    /\ entities[2].embedding = <<4, -3>>
    /\ entities[3].embedding = <<4, 3>>
    /\ \E w \in LoopIds :
          /\ loops[w].pc = "commit"
          /\ loops[w].txn = <<PersonEntity(2, StoredName(2), <<3, 0>>)>>

\* the person row comes from a detection of file f that has an embedding, a
\* confidence strictly above 0.85 and both eye landmarks
FromAcceptedDetection(row, f) ==
    \E i \in DOMAIN Representations(FileBytes(f)) :
        LET rep == Representations(FileBytes(f))[i]
        IN  /\ rep.embedding # <<>>
            /\ rep.embedding = row.embedding
            /\ rep.face_confidence > 85
            /\ rep.left_eye /\ rep.right_eye

\* C22: every person row created while processing a photo, by the queue
\* worker or by the single-scan path, comes from a detection that has an
\* embedding, a confidence strictly above 0.85 and both eye landmarks; a
\* detection without an eye landmark never produces a person row.
C22_PersonsFromAcceptedDetections ==
    /\ LET rows == entities \o TxnRowsFrom(1)
       IN  \A i \in DOMAIN rows :
              (rows[i].entity_type = "person" /\ rows[i].photo_id \in DOMAIN photos)
                  => FromAcceptedDetection(rows[i], photos[rows[i].photo_id].file)
    /\ \A i \in DOMAIN test_db.entities :
          LET row == test_db.entities[i]
          IN  (row.entity_type = "person" /\ row.photo_id \in DOMAIN test_db.photos)
                  => FromAcceptedDetection(row, test_db.photos[row.photo_id].file)

\* description = "": the empty text, not NULL
EmptyDescription == [isNone |-> FALSE, text |-> <<>>]

\* the call failed: network error, timeout or non-success status
CallFailed(result) == result.kind # "response" \/ result.status_code # 200

\* the descriptions the worker stores after a failed call
FailedDescriptions ==
    { DescriptionOf(process_image_with_ollama(result)) :
        result \in { r \in ServiceResults : CallFailed(r) } }

\* the step of instance w is its description step, ending a failed call
FailedCallStep(w) ==
    /\ loops[w].pc = "describe"
    /\ loops'[w].pc = "faces"
    /\ loops[w].photo_id \in DOMAIN photos
    /\ photos'[loops[w].photo_id].description \in FailedDescriptions

\* instance w holds a photo whose call failed and takes a step
StepAfterFailedCall(w) ==
    /\ loops[w].pc \in {"faces", "commit"}
    /\ loops[w].photo_id \in DOMAIN photos
    /\ photos[loops[w].photo_id].description \in FailedDescriptions
    /\ loops'[w] # loops[w]

\* after a failed call: the face step runs, the commit of line 257 ends the
\* iteration, and no pet row of the photo is inserted on the way
GoesOnAfterFailedCall(w) ==
    /\ loops[w].pc = "faces" =>
          /\ loops'[w].pc = "commit"
          /\ UncommittedOf(w, loops[w].photo_id, "pet")' = {}
    /\ loops[w].pc = "commit" =>
          /\ loops'[w] = NextIteration
          /\ CommittedOf(loops[w].photo_id, "pet")' = {}

C23_EmptyStep ==
    \A w \in LoopIds :
        /\ FailedCallStep(w) =>
              /\ photos'[loops[w].photo_id].status = "processed"
              /\ photos'[loops[w].photo_id].description = EmptyDescription
              /\ photos'[loops[w].photo_id].ai_model = ACTIVE_OLLAMA_MODEL
              /\ loops'[w].txn = <<>>
        /\ StepAfterFailedCall(w) => GoesOnAfterFailedCall(w)

\* C23 as stated: when the description service call fails (network error,
\* timeout or non-success status), the worker still sets the photo to
\* processed with an empty description and the active model name, inserts
\* no pet entity for it, continues to the face step, and the loop continues
\* with the next item.
C23_FailedCallEmptyDescription == [][C23_EmptyStep]_vars

C23_NoneStep ==
    \A w \in LoopIds :
        /\ FailedCallStep(w) =>
              /\ photos'[loops[w].photo_id].status = "processed"
              /\ photos'[loops[w].photo_id].description
                    \in {EmptyDescription, TextResponse(ModelNotFoundText)}
              /\ photos'[loops[w].photo_id].ai_model = ACTIVE_OLLAMA_MODEL
              /\ loops'[w].txn = <<>>
        /\ StepAfterFailedCall(w) => GoesOnAfterFailedCall(w)

\* C23, amended: the adapter returns None for a network error, a timeout
\* and a non-success status other than 404, and the photo then gets an
\* empty description; for a 404 the adapter returns its explanatory text,
\* which becomes the description.  In both cases the photo is set to
\* processed with the active model name, no pet entity is inserted for it,
\* the face step follows and the loop goes on with the next item.
C23_FailedCallNeverFatal ==
    /\ [](\A result \in ServiceResults :
            (CallFailed(result) /\ result.status_code # 404)
                => process_image_with_ollama(result) = NoResponse)
    /\ [][C23_NoneStep]_vars

\* a.jpg was processed with an empty description and without a pet row, and
\* the loop holds the next photo
C23_Witness ==
    /\ photos[1].status = "processed"
    /\ photos[1].description = EmptyDescription
    /\ photos[1].ai_model = ACTIVE_OLLAMA_MODEL
    /\ PetNamesOf(1) = <<>>
    /\ \E i \in DOMAIN entities :
          entities[i].photo_id = 1 /\ entities[i].entity_type = "person"
    /\ \E w \in LoopIds : loops[w].pc = "describe" /\ loops[w].photo_id = 2

\* instance w has logged that reading its file failed (line 92)
ReadFailed(w) == loops[w].log = "Error checking duplicate"

C24_ReadFailureStep ==
    \A w \in LoopIds :
        LET id == loops[w].photo_id
        IN  \* the file is read and hashed (a duplicate, or on to the
            \* description with the hash), or the failure is logged
            /\ (loops[w].pc = "hash" /\ loops'[w] # loops[w]) =>
                  \/ /\ loops'[w] = NextIteration
                     /\ id \in DOMAIN photos =>
                           /\ photos'[id].status = "duplicate"
                           /\ photos'[id].file_hash = Md5(FileBytes(loops[w].file))
                  \/ /\ loops'[w].pc = "describe"
                     /\ loops'[w].txn_hash = Md5(FileBytes(loops[w].file))
                  \/ ReadFailed(w)'
            \* after the failure nothing is written, nothing is marked
            /\ (loops[w].pc = "hash" /\ ReadFailed(w)') =>
                  /\ loops'[w].pc = "describe"
                  /\ loops'[w].txn_hash = 0
                  /\ photos' = photos
            \* the description step follows and sets the photo to processed
            /\ (loops[w].pc = "describe" /\ ReadFailed(w) /\ loops'[w] # loops[w]) =>
                  /\ loops'[w].pc \in {"faces", "none"}
                  /\ loops'[w].pc = "faces" =>
                        /\ photos'[id].status = "processed"
                        /\ photos'[id].file_hash = 0
                        /\ photos'[id].file_size = 0
            \* and the rest of the iteration leaves the row as it is
            /\ (loops[w].pc \in {"faces", "commit"} /\ ReadFailed(w)) =>
                  photos'[id] = photos[id]

\* C24: when reading the file size or computing the content hash of a
\* pending photo raises, the worker logs the failure, leaves the photo's
\* file_hash and file_size unset, does not mark it duplicate or error, and
\* continues with the description step, so that the photo ends with status
\* processed (unless a database statement raises and ends the instance).
C24_ReadFailureNeverFatal == [][C24_ReadFailureStep]_vars

\* b.jpg could not be read: it is processed without a hash, next to a.jpg,
\* which has the same bytes and was processed by the active model
C24_Witness ==
    /\ photos[1] = ProcessedA
    /\ photos[2].file = 2
    /\ photos[2].status = "processed"
    /\ photos[2].file_hash = 0
    /\ photos[2].file_size = 0
    /\ \A w \in LoopIds : ~Alive(w)

\* the stop words of the claim
StopWords ==
    { <<"c","a","t">>, <<"c","a","t","s">>, <<"d","o","g">>, <<"d","o","g","s">>,
      <<"p","e","t">>, <<"p","e","t","s">>,
      <<"a","n","i","m","a","l">>, <<"a","n","i","m","a","l","s">>,
      <<"b","i","r","d">>, <<"b","i","r","d","s">>, <<"f","i","s","h">>,
      <<"o","t","h","e","r">>, <<"u","n","k","n","o","w","n">>, <<"e","t","c">>,
      <<"n","o","n","e">>, <<"n","/","a">>,
      <<"v","i","s","i","b","l","e">>, <<"p","r","e","s","e","n","t">>,
      <<"t","h","e","r","e">>, <<"t","h","e">>, <<"a">>, <<"a","n">> }

\* the substrings of the claim
StopFragments ==
    { <<"n","o"," ">>, <<"n","o","t"," ">>, <<"a","r","e"," ">>,
      <<"t","h","e","r","e"," ">>,
      <<"v","i","s","i","b","l","e">>, <<"p","r","e","s","e","n","t">> }

\* the text is one the claim says never becomes a pet entity
Rejected(t) ==
    \/ Len(t) < 2
    \/ Len(t) >= 25
    \/ StrLower(t) \in StopWords
    \/ \E frag \in StopFragments : Contains(StrLower(t), frag)
    \/ \E i \in DOMAIN t : ~(IsAlnumCh(t[i]) \/ t[i] = " ")
    \/ WordCount(t) > 3

\* the token without any '.', '(' and ')' and without surrounding whitespace
WithoutPunctuation(t) ==
    Strip(SelectSeq(t, LAMBDA c : c \notin {".", "(", ")"}))

\* the photos whose description holds a list after the marker
ListedIds ==
    { id \in DescribedIds : Contains(photos[id].description.text, EntitiesMarker) }

\* every pet row of photo id is the row of one of the tokens: there are no
\* more rows than tokens, and every row carries the name of one of them
PetRowsFromTokens(id, tokens) ==
    /\ Len(PetNamesOf(id)) <= Len(tokens)
    /\ \A i \in DOMAIN PetNamesOf(id) :
          \E j \in DOMAIN tokens :
              PetNamesOf(id)[i] = UnknownPrefix \o StrTitle(WithoutPunctuation(tokens[j]))

\* C25 as stated: the worker never inserts a pet entity for a
\* comma-separated token that has fewer than 2 or at least 25 characters,
\* whose lower-case form is a stop word, that contains one of the substrings
\* 'no ', 'not ', 'are ', 'there ', 'visible', 'present', that contains a
\* character other than a letter, a digit or a space, or that has more than
\* 3 whitespace-separated words: the pet rows of a photo are rows of the
\* other tokens of its list.
C25_RejectedTokensGiveNoPet ==
    \A id \in ListedIds :
        PetRowsFromTokens(id,
            SelectSeq(ListTokens(AfterMarker(photos[id].description.text)),
                      LAMBDA t : ~Rejected(t)))

\* C25, amended: the same with the tests made on the token after every
\* '.', '(' and ')' has been removed from it and the result trimmed.
C25_RejectedCleanTokensGiveNoPet ==
    \A id \in ListedIds :
        PetRowsFromTokens(id,
            SelectSeq(ListTokens(AfterMarker(photos[id].description.text)),
                      LAMBDA t : ~Rejected(WithoutPunctuation(t))))

\* of a list of a token of four words and a token of three, the second
\* alone became a pet row
C25_Witness ==
    \E id \in ListedIds :
        /\ Len(ListTokens(AfterMarker(photos[id].description.text))) = 2
        /\ WordCount(ListTokens(AfterMarker(photos[id].description.text))[1]) = 4
        /\ PetNamesOf(id) = << UnknownPrefix \o <<"M","r"," ","T"," ","B","o","n","e">> >>
        /\ CommittedOf(id, "pet") # {}

\* C26: in every reachable state in which the mode is running or paused,
\* current_scan_processed is at most current_scan_total, after any sequence
\* of scan requests, cancel requests and worker iterations.
C26_ProcessedAtMostTotal ==
    SCAN_STATE \in {"running", "paused"} => current_scan_processed <= current_scan_total

\* the names "Unknown Person N" the step allocates, in order
AllocatedNames ==
    IF Len(unknown_allocs') <= Len(unknown_allocs) THEN <<>>
    ELSE [ i \in 1..(Len(unknown_allocs') - Len(unknown_allocs)) |->
             UnknownPersonPrefix \o IntToStr(unknown_allocs'[Len(unknown_allocs) + i]) ]

\* the names of the person rows of the table
PersonNames ==
    { entities[i].entity_name : i \in { j \in DOMAIN entities :
                                           entities[j].entity_type = "person" } }

C27_AllocationStep ==
    /\ \A i \in DOMAIN AllocatedNames : AllocatedNames[i] \notin PersonNames
    /\ \A i, j \in DOMAIN AllocatedNames : i # j => AllocatedNames[i] # AllocatedNames[j]

\* C27: a newly allocated name 'Unknown Person N' never equals the
\* entity_name of a person row that already exists, after any sequence of
\* face resolutions of the worker, renamings and deletions of entities and
\* force-rescan purges.
C27_UnknownNameIsNew == [][C27_AllocationStep]_vars

\* C28: for each pair (file_hash, ai_model) with a file_hash that is not
\* NULL, at most one photo row of the worker's database has the status
\* 'processed'.
C28_OneProcessedPerHash ==
    \A p, q \in DOMAIN photos :
        ( /\ photos[p].status = "processed" /\ photos[q].status = "processed"
          /\ photos[p].file_hash # 0
          /\ photos[p].file_hash = photos[q].file_hash
          /\ photos[p].ai_model = photos[q].ai_model )
        => p = q

\* the rows of a table of entities belong to processed rows of the table of
\* photos
OfProcessedPhotos(entity_rows, photo_rows) ==
    \A i \in DOMAIN entity_rows :
        /\ entity_rows[i].photo_id \in DOMAIN photo_rows
        /\ photo_rows[entity_rows[i].photo_id].status = "processed"

\* C29: every entity row belongs to a photo whose status is 'processed', in
\* the database of the queue worker and in the test database of the
\* single-scan path: photos with the status pending, screenshot, duplicate
\* or error have no entities.
C29_EntitiesOnlyOfProcessed ==
    /\ OfProcessedPhotos(entities, photos)
    /\ OfProcessedPhotos(test_db.entities, test_db.photos)

\* the step serves a request to /api/database/clean, /backup or /restore
SystemRequestStep == system'.served # system.served

C30_SystemStep ==
    (SystemRequestStep /\ AliveLoops # {})
    => /\ system'.status_code = 400
       /\ system'.backups = system.backups
       /\ UNCHANGED <<photos, next_photo_id, entities, test_db>>

\* C30: while an instance of the worker loop is alive or an item is in
\* flight, a request to clean, back up or restore the database is answered
\* with 400, writes no backup and leaves the databases unchanged, also when
\* the mode is paused.
C30_NoSystemOpWhileLoopAlive == [][C30_SystemStep]_vars
====
